---- MODULE Spec2Model ----
(***************************************************************************)
(* A model of the SONaa registry (src/SONaa.py) and of its name matching   *)
(* tools (src/SONaa_Tools.py).                                             *)
(*                                                                         *)
(* Text values (identifiers, titles, names, dates) are sequences of        *)
(* characters, each character a one-character string.  Two multi-character *)
(* tokens stand for substrings whose inner characters no operation of the  *)
(* program looks at separately: Prefix for "https://doi.org/" and the      *)
(* random suffixes drawn by create_article_id.                             *)
(*                                                                         *)
(* Spec      : the article registry (ingestion, merge_articles, clean).    *)
(* SpecNames : the author index and the name matcher.                      *)
(* SpecLong  : ingestion of a five-row file of OpenAlex, and clean().      *)
(* SpecTools : the functions of the tools, each applied to drawn inputs.   *)
(* SpecSimilar : ingestion of a file with similar titles, and clean().     *)
(***************************************************************************)
EXTENDS Integers, Sequences, FiniteSets, TLC

VARIABLES
    articles,     \* self.articles: the rows of the article table, by position
    trackingCol,  \* whether the 'tracking' column exists
    oldDoisCol,   \* whether the 'old_dois' column exists
    pc,           \* position inside clean(): "idle" between two calls
    groups,       \* clean(): the groups still to be processed in this phase
    toDelete,     \* clean(): articles_to_delete
    ncalls,       \* number of calls made to the registry
    last,         \* the last call and what it returned
    report,       \* what clean() printed: conflicts and similar title pairs
    cleanPre,     \* the table the running (or last) clean() started from
    authors,      \* self.authors: the rows of the author table, by position
    lookup,       \* the AuthorLookup: by_name, by_aid, by_orcid, by_alt_name
    name_cache,   \* the cache the callers of match_name pass
    built,        \* _initialize_lookup_and_matcher: the rows it has been through
    nlast,        \* the last call to the name matcher and what it returned
    nameCalls,    \* number of calls made to the name matcher
    call          \* the last call of a function of the tools, with its result

regVars == <<articles, trackingCol, oldDoisCol, pc, groups, toDelete, ncalls, last, report, cleanPre>>
nameVars == <<authors, lookup, name_cache, built, nlast, nameCalls>>

----------------------------------------------------------------------------
(* Bounds of the model *)

MaxArticles == 3
MaxCalls == 3
MaxIds == 3
MaxAuthors == 2
MaxNameCalls == 4

----------------------------------------------------------------------------
(* Text *)

None == <<"<None>">>
NoList == {None}
\* the column alternative_names of an author that has none
NoNames == <<None>>
Prefix == "https://doi.org/"
EmptyWord == <<"e", "m", "p", "t", "y">>

Range(s) == {s[i] : i \in 1..Len(s)}

Digits == {"0", "1", "2", "3", "4", "5", "6", "7", "8", "9"}
LowerOf == [A |-> "a", B |-> "b", F |-> "f", J |-> "j", K |-> "k", N |-> "n", O |-> "o", X |-> "x"]
UpperLetters == DOMAIN LowerOf
LowerLetters == {"a", "b", "e", "f", "j", "k", "m", "n", "o", "p", "r", "s", "t", "w", "x", "y", "z", "i", "l"}
\* characters of names that are no ASCII: a dash NFKD leaves alone, and
\* characters NFKD decomposes to "-", "_" and " "; a space NFKD leaves alone
EnDash == "<en dash>"
FwHyphen == "<fullwidth hyphen-minus>"
FwLowLine == "<fullwidth low line>"
Nbsp == "<no-break space>"
Ogham == "<ogham space mark>"
SpaceChars == {" ", Nbsp, Ogham}
Punctuation == {"!", ".", ",", ":", "-", "_", "/", "&", "(", ")", "?"}

LowerChar(c) == IF c \in UpperLetters THEN LowerOf[c] ELSE c
LowerStr(s) == [i \in 1..Len(s) |-> LowerChar(s[i])]
IsWordChar(c) == c \in Digits \cup LowerLetters \cup UpperLetters \cup {"_"}
IsSpaceChar(c) == c \in SpaceChars

ReplaceChar(s, a, b) == [i \in 1..Len(s) |-> IF s[i] = a THEN b ELSE s[i]]
IsNotPrefix(c) == c # Prefix
RemovePrefix(s) == SelectSeq(s, IsNotPrefix)
Take(s, n) == SubSeq(s, 1, IF Len(s) < n THEN Len(s) ELSE n)

RECURSIVE CollapseSpaces(_, _)
CollapseSpaces(s, r) ==
    IF s = <<>> THEN <<>>
    ELSE IF IsSpaceChar(Head(s))
         THEN IF Len(s) > 1 /\ IsSpaceChar(s[2])
              THEN CollapseSpaces(Tail(s), r)
              ELSE <<r>> \o CollapseSpaces(Tail(s), r)
         ELSE <<Head(s)>> \o CollapseSpaces(Tail(s), r)

----------------------------------------------------------------------------
(* Article identity *)

IsNa(x) == x = None
HasDoi(doi) == ~IsNa(doi) /\ doi # <<>> /\ doi # EmptyWord

LastPrefixAt(doi) ==
    LET at == {i \in 1..Len(doi) : doi[i] = Prefix}
    IN IF at = {} THEN 0 ELSE CHOOSE i \in at : \A j \in at : j <= i
AfterOrg(doi) == SubSeq(doi, LastPrefixAt(doi) + 1, Len(doi))

clean_doi(doi) == LowerStr(RemovePrefix(doi))

TitleMaxLen == 20
IsWordOrSpace(c) == IsWordChar(c) \/ IsSpaceChar(c)
TitleKey(title) == Take(CollapseSpaces(SelectSeq(LowerStr(title), IsWordOrSpace), "_"), TitleMaxLen)

create_article_id(doi, title, rnd) ==
    IF HasDoi(doi)
    THEN ReplaceChar(ReplaceChar(LowerStr(AfterOrg(doi)), ".", "_"), "/", "&")
    ELSE IF ~IsNa(title) /\ title # <<>>
         THEN <<"title_">> \o TitleKey(title) \o <<"_", rnd>>
         ELSE <<"unknown_", rnd>>

----------------------------------------------------------------------------
(* Dates: a date is None, a Python int or a string; v holds its digits or   *)
(* characters.                                                              *)

DNone == [t |-> "none", v |-> <<>>]
DInt(d) == [t |-> "int", v |-> d]
DStr(s) == [t |-> "str", v |-> s]

Digits10 == <<"0", "1", "2", "3", "4", "5", "6", "7", "8", "9">>
DigitVal(c) == CHOOSE n \in 0..9 : Digits10[n + 1] = c
RECURSIVE NumVal(_)
NumVal(d) == IF d = <<>> THEN 0 ELSE 10 * NumVal(SubSeq(d, 1, Len(d) - 1)) + DigitVal(d[Len(d)])
IsDigitStr(s) == s # <<>> /\ \A i \in 1..Len(s) : s[i] \in Digits

YearMin == 1900
YearMax == 2100
YearLen == 4

\* re.search(r'\b(19|20)\d{2}\b', s): the first match, <<>> when there is none
YearMatchAt(s, i) ==
    /\ i + 3 <= Len(s)
    /\ <<s[i], s[i + 1]>> \in {<<"1", "9">>, <<"2", "0">>}
    /\ s[i + 2] \in Digits /\ s[i + 3] \in Digits
    /\ (i = 1 \/ ~IsWordChar(s[i - 1]))
    /\ (i + 3 = Len(s) \/ ~IsWordChar(s[i + 4]))
YearSearch(s) ==
    LET at == {i \in 1..Len(s) : YearMatchAt(s, i)}
    IN IF at = {} THEN <<>>
       ELSE LET i == CHOOSE k \in at : \A j \in at : k <= j IN SubSeq(s, i, i + 3)

\* one date of ensure_years_only
YearOnly(date) ==
    IF date.t = "none" THEN date
    ELSE IF date.t = "int"
         THEN IF YearMin <= NumVal(date.v) /\ NumVal(date.v) <= YearMax THEN date ELSE DNone
         ELSE IF IsDigitStr(date.v) /\ Len(date.v) = YearLen
                 /\ YearMin <= NumVal(date.v) /\ NumVal(date.v) <= YearMax
              THEN DInt(date.v)
              ELSE IF YearSearch(date.v) # <<>> THEN DInt(YearSearch(date.v)) ELSE DNone

ensure_years_only(arts) == [i \in 1..Len(arts) |-> [arts[i] EXCEPT !.date = YearOnly(@)]]

----------------------------------------------------------------------------
(* merge_articles *)

UrlCols == {"pdf_url", "landing_page_url", "oa_url"}
NoUrls == [c \in UrlCols |-> None]

\* id_to_idx: its keys in insertion order, and the row each key maps to (the
\* last row carrying the id)
IdKeys(arts, ids) ==
    LET F[i \in 0..Len(arts)] ==
            IF i = 0 THEN <<>>
            ELSE IF arts[i].Article_ID \in Range(ids) /\ arts[i].Article_ID \notin Range(F[i - 1])
                 THEN Append(F[i - 1], arts[i].Article_ID)
                 ELSE F[i - 1]
    IN F[Len(arts)]
IdxOf(arts, id) ==
    CHOOSE i \in 1..Len(arts) :
        /\ arts[i].Article_ID = id
        /\ \A j \in 1..Len(arts) : arts[j].Article_ID = id => j <= i

\* the main article: the first key of id_to_idx whose row has a DOI, else article_ids[0]
MainId(arts, ids) ==
    LET keys == IdKeys(arts, ids)
        withDoi == {k \in 1..Len(keys) : HasDoi(arts[IdxOf(arts, keys[k])].doi)}
    IN IF withDoi = {} THEN ids[1]
       ELSE keys[CHOOSE k \in withDoi : \A j \in withDoi : k <= j]

TrackingOf(row) == IF row.tracking = NoList THEN {row.Article_ID} ELSE row.tracking
OldDoisOf(row) ==
    IF row.old_dois = NoList
    THEN IF HasDoi(row.doi) THEN {clean_doi(row.doi)} ELSE {}
    ELSE row.old_dois

RECURSIVE AppendNew(_, _)
AppendNew(main, others) ==
    IF others = <<>> THEN main
    ELSE AppendNew(IF Head(others) \in Range(main) THEN main ELSE Append(main, Head(others)),
                   Tail(others))

\* the date merge_articles writes to the main row from the other row's date
MergedDate(old, other) ==
    IF other.t = "int" \/ (IsDigitStr(other.v) /\ Len(other.v) = YearLen)
    THEN DInt(other.v)
    ELSE IF YearSearch(other.v) # <<>> THEN DInt(YearSearch(other.v)) ELSE old

\* one pass of the loop over the other articles.  m.row is the main row of the
\* table, m.view is main_article, the copy of it the loop reads.
MergeOne(m, other) ==
    LET copyDoi == ~HasDoi(m.view.doi) /\ HasDoi(other.doi)
        row1 == IF copyDoi THEN [m.row EXCEPT !.doi = other.doi] ELSE m.row
        old1 == (m.old_dois \cup OldDoisOf(other))
                    \cup (IF copyDoi THEN {clean_doi(other.doi)} ELSE {})
        view1 == IF copyDoi THEN row1 ELSE m.view
        copyDate == view1.date.t = "none" /\ other.date.t # "none"
        row2 == IF copyDate THEN [row1 EXCEPT !.date = MergedDate(@, other.date)] ELSE row1
        view2 == IF copyDate THEN row2 ELSE view1
        row3 == [row2 EXCEPT !.urls =
                    [c \in UrlCols |-> IF IsNa(view2.urls[c]) /\ ~IsNa(other.urls[c])
                                       THEN other.urls[c] ELSE row2.urls[c]]]
    IN [row |-> row3, view |-> view2,
        tracking |-> m.tracking \cup TrackingOf(other),
        old_dois |-> old1,
        authors |-> AppendNew(m.authors, other.authors)]

RECURSIVE MergeLoop(_, _, _)
MergeLoop(m, arts, others) ==
    IF others = <<>> THEN m
    ELSE MergeLoop(MergeOne(m, arts[IdxOf(arts, Head(others))]), arts, Tail(others))

MergeFailed(arts, ids) ==
    [ok |-> FALSE, id |-> IF Len(ids) = 1 THEN ids[1] ELSE None, arts |-> arts,
     main |-> 0, located |-> {}]

\* the new row of the main article, before its Article_ID is generated again
WriteBack(m) ==
    [m.row EXCEPT !.tracking = m.tracking, !.authors = m.authors, !.old_dois = m.old_dois]
\* the merge with the old_dois of a main article that has none started empty
MergeInto_old_dois_empty(arts, main, others) ==
    WriteBack(MergeLoop([row |-> main, view |-> main, tracking |-> TrackingOf(main),
                         old_dois |-> IF main.old_dois = NoList THEN {} ELSE main.old_dois,
                         authors |-> main.authors],
                        arts, others))
MergeInto(arts, main, others) ==
    WriteBack(MergeLoop([row |-> main, view |-> main, tracking |-> TrackingOf(main),
                         old_dois |-> OldDoisOf(main), authors |-> main.authors],
                        arts, others))
OtherKeys(keys, mainId) == SelectSeq(keys, LAMBDA k : k # mainId)
MergedRowOf(arts, ids, mainId) ==
    MergeInto(arts, arts[IdxOf(arts, mainId)], OtherKeys(IdKeys(arts, ids), mainId))
MergedRow(arts, ids) == MergedRowOf(arts, ids, MainId(arts, ids))

\* the table and the id merge_articles returns once the main row is written
MergeDone(arts, ids, mainIdx, row, newId) ==
    [ok |-> TRUE, id |-> newId,
     arts |-> [arts EXCEPT ![mainIdx] = [row EXCEPT !.Article_ID = newId]],
     main |-> mainIdx,
     located |-> {IdxOf(arts, ids[k]) : k \in 1..Len(ids)}]
MergeWrite(arts, ids, mainIdx, row, rnd) ==
    MergeDone(arts, ids, mainIdx, row, create_article_id(row.doi, row.title, rnd))

\* merge_articles that merges the articles it found when an id is unknown
merge_articles_located(arts, ids, rnd) ==
    IF Len(arts) = 0 THEN [MergeFailed(arts, ids) EXCEPT !.id = None]
    ELSE IF Len(ids) <= 1 THEN MergeFailed(arts, ids)
    ELSE IF Len(IdKeys(arts, ids)) <= 1 THEN [MergeFailed(arts, ids) EXCEPT !.id = None]
    ELSE MergeWrite(arts, IdKeys(arts, ids), IdxOf(arts, MainId(arts, IdKeys(arts, ids))),
                    MergedRow(arts, IdKeys(arts, ids)), rnd)

\* merge_articles(article_ids) on the table arts; rnd is the random suffix
\* create_article_id draws when the main article has no DOI
merge_articles(arts, ids, rnd) ==
    IF Len(arts) = 0 THEN [MergeFailed(arts, ids) EXCEPT !.id = None]
    ELSE IF Len(ids) <= 1 THEN MergeFailed(arts, ids)
    ELSE IF Len(IdKeys(arts, ids)) # Len(ids) THEN [MergeFailed(arts, ids) EXCEPT !.id = None]
    ELSE MergeWrite(arts, ids, IdxOf(arts, MainId(arts, ids)), MergedRow(arts, ids), rnd)

----------------------------------------------------------------------------
(* Duplicate detection *)

RECURSIVE SeqOfSet(_)
SeqOfSet(S) ==
    IF S = {} THEN <<>>
    ELSE LET m == CHOOSE x \in S : \A y \in S : x <= y IN <<m>> \o SeqOfSet(S \ {m})

IsNotSpace(c) == ~IsSpaceChar(c)
IsBlank(s) == SelectSeq(s, IsNotSpace) = <<>>

\* the keys of a dict filled key by key, in insertion order
KeysInOrder(ks) ==
    LET F[i \in 0..Len(ks)] ==
            IF i = 0 THEN <<>>
            ELSE IF ks[i] \notin Range(F[i - 1]) THEN Append(F[i - 1], ks[i]) ELSE F[i - 1]
    IN F[Len(ks)]

DoiKey(row) == IF ~IsNa(row.doi) /\ row.doi # EmptyWord THEN clean_doi(row.doi) ELSE <<>>
ValidDoiKey(k) == ~IsBlank(k)

\* identify_doi_duplicates: the index lists of the groups with several articles
identify_doi_duplicates(arts) ==
    LET keys == KeysInOrder(SelectSeq([i \in 1..Len(arts) |-> DoiKey(arts[i])], ValidDoiKey))
        Members(k) == SeqOfSet({i \in 1..Len(arts) : DoiKey(arts[i]) = k})
        IsDup(k) == Len(Members(k)) > 1
        dups == SelectSeq(keys, IsDup)
    IN [g \in 1..Len(dups) |-> Members(dups[g])]

MinTitleLen == 5
IsNotPunctuation(c) == c \notin Punctuation
StdTitle(row) == IF IsNa(row.title) THEN <<>> ELSE SelectSeq(LowerStr(row.title), IsNotPunctuation)
ValidTitleKey(k) == ~IsBlank(k) /\ Len(k) >= MinTitleLen

NoDoiForTitle(doi) == IsNa(doi) \/ doi = <<>> \/ doi = EmptyWord
TitleDoiKey(row) == RemovePrefix(LowerStr(row.doi))

\* the title groups with several articles, as index lists in title order
TitleGroups(arts) ==
    LET keys == KeysInOrder(SelectSeq([i \in 1..Len(arts) |-> StdTitle(arts[i])], ValidTitleKey))
        Members(k) == SeqOfSet({i \in 1..Len(arts) : StdTitle(arts[i]) = k})
        IsDup(k) == Len(Members(k)) > 1
        dups == SelectSeq(keys, IsDup)
    IN [g \in 1..Len(dups) |-> Members(dups[g])]

GroupDois(arts, g) == {TitleDoiKey(arts[g[k]]) : k \in {j \in 1..Len(g) : ~NoDoiForTitle(arts[g[j]].doi)}}
IsConflict(arts, g) == Cardinality(GroupDois(arts, g)) > 1

\* identify_title_duplicates: (title_no_conflicts, title_conflicts); a group that
\* can be merged lists the articles with the DOI first, then those without
identify_title_duplicates(arts) ==
    LET tg == TitleGroups(arts)
        Conflict(g) == IsConflict(arts, g)
        NoConflict(g) == ~IsConflict(arts, g)
        Ordered(g) ==
            LET WithDoi(i) == ~NoDoiForTitle(arts[i].doi)
                Without(i) == NoDoiForTitle(arts[i].doi)
            IN SelectSeq(g, WithDoi) \o SelectSeq(g, Without)
        ok == SelectSeq(tg, NoConflict)
    IN [no_conflicts |-> [k \in 1..Len(ok) |-> Ordered(ok[k])],
        conflicts |-> SelectSeq(tg, Conflict)]

\* re.findall(r'\b\w+\b', text) on a standardized title
RECURSIVE Words(_, _)
Words(s, cur) ==
    IF s = <<>> THEN (IF cur = <<>> THEN <<>> ELSE <<cur>>)
    ELSE IF IsWordChar(Head(s)) THEN Words(Tail(s), Append(cur, Head(s)))
         ELSE (IF cur = <<>> THEN <<>> ELSE <<cur>>) \o Words(Tail(s), <<>>)

NGramSize == 4
MaxTitlesPerNGram == 30
MaxPairs == 20
MinSharedNGrams == 1

get_word_ngrams(text, n) ==
    LET w == Words(text, <<>>)
    IN IF Len(w) < n THEN {w} ELSE {SubSeq(w, i, i + n - 1) : i \in 1..(Len(w) - n + 1)}

RECURSIVE SortDesc(_)
SortDesc(S) ==
    IF S = {} THEN <<>>
    ELSE LET Less(a, b) == \/ a[1] < b[1]
                           \/ a[1] = b[1] /\ a[2] < b[2]
                           \/ a[1] = b[1] /\ a[2] = b[2] /\ a[3] < b[3]
             m == CHOOSE x \in S : \A y \in S \ {x} : Less(y, x)
         IN <<m>> \o SortDesc(S \ {m})

\* identify_similar_titles: the (count, idx1, idx2) triples, best first
identify_similar_titles(arts) ==
    LET valid == {i \in 1..Len(arts) : ValidTitleKey(StdTitle(arts[i]))}
        Grams(i) == get_word_ngrams(StdTitle(arts[i]), NGramSize)
        TitlesOf(gr) == {i \in valid : gr \in Grams(i)}
        allGrams == UNION {Grams(i) : i \in valid}
        kept == {gr \in allGrams : Cardinality(TitlesOf(gr)) <= MaxTitlesPerNGram}
        Shared(i, j) == Cardinality({gr \in kept : i \in TitlesOf(gr) /\ j \in TitlesOf(gr)})
        pairs == {<<Shared(p[1], p[2]), p[1], p[2]>> :
                    p \in {q \in valid \X valid : q[1] < q[2] /\ Shared(q[1], q[2]) >= MinSharedNGrams}}
    IN Take(SortDesc(pairs), MaxPairs)

----------------------------------------------------------------------------
(* Names: NameStandardizer and the name components of NameMatcher *)

DASH_CHARS == {"-", EnDash, FwHyphen}
WHITESPACE_CHARS == {Nbsp, Ogham}

\* unicodedata.normalize('NFKD', c)
NfkdChar(c) ==
    CASE c = FwLowLine -> "_"
      [] c = FwHyphen -> "-"
      [] c = Nbsp -> " "
      [] OTHER -> c
Nfkd(s) == [i \in 1..Len(s) |-> NfkdChar(s[i])]
Dashes(s) == [i \in 1..Len(s) |-> IF s[i] \in DASH_CHARS THEN "-" ELSE s[i]]
Whitespaces(s) == [i \in 1..Len(s) |-> IF s[i] \in WHITESPACE_CHARS THEN " " ELSE s[i]]

\* re.sub(r'\s*-\s*', '-', s): the spaces next to a hyphen go
TouchesHyphen(s, i) ==
    /\ IsSpaceChar(s[i])
    /\ \E j \in 1..Len(s) :
        /\ s[j] = "-"
        /\ \A k \in 1..Len(s) : ((i <= k /\ k < j) \/ (j < k /\ k <= i)) => IsSpaceChar(s[k])
KeepAt(s, idx) == [k \in 1..Len(idx) |-> s[idx[k]]]
HyphenSpaces(s) == KeepAt(s, SeqOfSet({i \in 1..Len(s) : ~TouchesHyphen(s, i)}))

\* str.strip()
RECURSIVE LStrip(_)
LStrip(s) == IF s # <<>> /\ IsSpaceChar(Head(s)) THEN LStrip(Tail(s)) ELSE s
RECURSIVE RStrip(_)
RStrip(s) ==
    IF s # <<>> /\ IsSpaceChar(s[Len(s)]) THEN RStrip(SubSeq(s, 1, Len(s) - 1)) ELSE s
Strip(s) == RStrip(LStrip(s))

\* NameStandardizer._standardize
StandardizeCase(s, to_lower) == IF to_lower THEN LowerStr(s) ELSE s
standardize(name_str, to_lower) ==
    IF IsNa(name_str) THEN <<>>
    ELSE StandardizeCase(
             Strip(CollapseSpaces(
                 Whitespaces(HyphenSpaces(Dashes(Nfkd(ReplaceChar(name_str, "_", " "))))), " ")),
             to_lower)

\* str.split(): the words between runs of spaces
RECURSIVE SplitFrom(_, _, _)
SplitFrom(s, cur, out) ==
    IF s = <<>> THEN (IF cur = <<>> THEN out ELSE Append(out, cur))
    ELSE IF IsSpaceChar(Head(s))
         THEN SplitFrom(Tail(s), <<>>, IF cur = <<>> THEN out ELSE Append(out, cur))
         ELSE SplitFrom(Tail(s), Append(cur, Head(s)), out)
Split(s) == SplitFrom(s, <<>>, <<>>)

\* str.split(sep) for a one-character separator: empty parts are kept
RECURSIVE SplitOnFrom(_, _, _, _)
SplitOnFrom(s, sep, cur, out) ==
    IF s = <<>> THEN Append(out, cur)
    ELSE IF Head(s) = sep
         THEN SplitOnFrom(Tail(s), sep, <<>>, Append(out, cur))
         ELSE SplitOnFrom(Tail(s), sep, Append(cur, Head(s)), out)
SplitOn(s, sep) == SplitOnFrom(s, sep, <<>>, <<>>)

RECURSIVE Join(_, _)
Join(words, sep) ==
    IF words = <<>> THEN <<>>
    ELSE IF Len(words) = 1 THEN words[1]
    ELSE words[1] \o <<sep>> \o Join(Tail(words), sep)

\* SONaa._format_name: every word, and every part of a hyphenated word, gets
\* a capital first letter and small letters after it
UpperChar(c) ==
    IF \E u \in UpperLetters : LowerOf[u] = c
    THEN CHOOSE u \in UpperLetters : LowerOf[u] = c ELSE c
FormatWord(w) ==
    [i \in 1..Len(w) |-> IF i = 1 \/ w[i - 1] = "-" THEN UpperChar(w[i]) ELSE LowerChar(w[i])]
FormatWords(words) == Join([k \in 1..Len(words) |-> FormatWord(words[k])], " ")
_format_name(name) == IF IsNa(name) THEN name ELSE FormatWords(Split(standardize(name, FALSE)))

\* NameMatcher.extract_name_components
extract_name_components(name) ==
    LET parts == Split(name)
    IN IF Len(parts) = 0 THEN [first |-> <<>>, last |-> <<>>, middle |-> <<>>]
       ELSE IF Len(parts) = 1 THEN [first |-> parts[1], last |-> <<>>, middle |-> <<>>]
       ELSE [first |-> parts[1], last |-> parts[Len(parts)],
             middle |-> SubSeq(parts, 2, Len(parts) - 1)]

CompoundIndicators ==
    {<<"v", "a", "n">>, <<"v", "o", "n">>, <<"d", "e", "r">>, <<"d", "e", "n">>, <<"d", "e">>,
     <<"l", "a">>, <<"l", "e">>, <<"d", "i">>, <<"d", "a">>}

\* NameMatcher.extract_complex_name
HyphenParts(surname) ==
    IF "-" \in Range(surname) THEN Append(SplitOn(surname, "-"), surname) ELSE <<surname>>
CompoundParts(middle, surname) ==
    LET at == SelectSeq([i \in 1..Len(middle) |-> i],
                        LAMBDA i : LowerStr(middle[i]) \in CompoundIndicators)
    IN [k \in 1..Len(at) |-> Join(Append(SubSeq(middle, at[k], Len(middle)), surname), " ")]
ComplexOf(basic) ==
    [first |-> basic.first, middle |-> basic.middle, last |-> basic.last,
     last_parts |-> HyphenParts(basic.last) \o CompoundParts(basic.middle, basic.last)]
extract_complex_name(name) == ComplexOf(extract_name_components(name))

\* a in b, for two strings
IsSubstr(a, b) == \E i \in 0..(Len(b) - Len(a)) : SubSeq(b, i + 1, i + Len(a)) = a
Min(x, y) == IF x < y THEN x ELSE y

FirstNameExact == 40
FirstNameMinLen == 3
FirstNamePerChar == 5
FirstNameMax == 20
LastNameExact == 60
LastPartExact == 30
LastPartContained == 20
ContainedMinLen == 4
HyphenPartPoints == 15
HyphenPartsMax == 30

\* NameMatcher._calculate_match_score, the first name
FirstNameScore(a, b) ==
    IF a = b THEN FirstNameExact
    ELSE IF Len(a) >= FirstNameMinLen /\ Len(b) >= FirstNameMinLen
         THEN Min(FirstNameMax,
                  FirstNamePerChar * Cardinality({i \in 1..Min(Len(a), Len(b)) : a[i] = b[i]}))
         ELSE 0

Contained(part, db_part) ==
    \/ Len(part) >= ContainedMinLen /\ IsSubstr(part, db_part)
    \/ Len(db_part) >= ContainedMinLen /\ IsSubstr(db_part, part)

\* the loop over name_parts["last_parts"]: a part that is a part of the other
\* name ends the loop, a part contained in one (or containing one) does not
RECURSIVE LastPartsScore(_, _)
LastPartsScore(parts, db_parts) ==
    IF parts = <<>> THEN 0
    ELSE IF Head(parts) \in Range(db_parts) THEN LastPartExact
    ELSE (IF \E k \in 1..Len(db_parts) : Contained(Head(parts), db_parts[k])
          THEN LastPartContained ELSE 0)
         + LastPartsScore(Tail(parts), db_parts)

HyphenScore(a, b) ==
    IF "-" \in Range(a) /\ "-" \in Range(b)
    THEN Min(HyphenPartsMax,
             HyphenPartPoints
                * Cardinality({i \in 1..Len(SplitOn(a, "-")) :
                                  SplitOn(a, "-")[i] \in Range(SplitOn(b, "-"))}))
    ELSE 0

LastNameScore(n, d) ==
    IF n.last = d.last THEN LastNameExact
    ELSE LastPartsScore(n.last_parts, d.last_parts)
         + (IF Contained(n.last, d.last) THEN LastPartContained ELSE 0)
         + HyphenScore(n.last, d.last)

_calculate_match_score(name_parts, db_parts) ==
    FirstNameScore(name_parts.first, db_parts.first) + LastNameScore(name_parts, db_parts)

----------------------------------------------------------------------------
(* AuthorLookup and NameMatcher.  A dict is a function on its keys.  The     *)
(* matcher works on m: the author table, the four lookup tables and, after a *)
(* call of add_alternative_name, whether it added the name.                  *)

EmptyDict == [k \in {} |-> None]
Get(d, k) == IF k \in DOMAIN d THEN d[k] ELSE None
Put(d, k, v) == [x \in DOMAIN d \cup {k} |-> IF x = k THEN v ELSE d[x]]
Truthy(x) == ~IsNa(x) /\ x # <<>>

\* SONaa.legacy_load_authors, one row of the file: the name is formatted, the
\* Aid is made of the formatted name and the code of the original Aid
AuthorOf(fullname, code, orcid) ==
    [Aid |-> ReplaceChar(fullname, " ", "_") \o <<"_", code>>,
     fullname |-> fullname, std_fullname |-> standardize(fullname, TRUE),
     orcid |-> orcid, alternative_names |-> NoNames]
legacy_load_authors(file) ==
    [i \in 1..Len(file) |-> AuthorOf(_format_name(file[i].fullname), file[i].code, file[i].orcid)]

NoIndex == [by_name |-> EmptyDict, by_aid |-> EmptyDict, by_orcid |-> EmptyDict,
            by_alt_name |-> EmptyDict]

\* add_author with by_name keyed by the full name as it is written
add_author_by_fullname(ix, aid, std_name, fullname, orcid, idx) ==
    [ix EXCEPT
        !.by_name = Put(@, fullname, aid),
        !.by_aid = Put(@, aid, [fullname |-> fullname, std_name |-> std_name,
                                orcid |-> orcid, idx |-> idx]),
        !.by_orcid = IF Truthy(orcid) THEN Put(@, orcid, aid) ELSE @]

\* AuthorLookup.add_author
add_author(ix, aid, std_name, fullname, orcid, idx) ==
    [ix EXCEPT
        !.by_name = Put(@, std_name, aid),
        !.by_aid = Put(@, aid, [fullname |-> fullname, std_name |-> std_name,
                                orcid |-> orcid, idx |-> idx]),
        !.by_orcid = IF Truthy(orcid) THEN Put(@, orcid, aid) ELSE @]

\* AuthorLookup.add_alternative_name
lookup_add_alternative_name(ix, aid, alt_name) ==
    [ix EXCEPT !.by_alt_name = Put(@, standardize(alt_name, TRUE), aid)]

\* AuthorLookup.lookup_by_name, lookup_by_orcid, lookup_by_alt_name
lookup_by_name(ix, name) == Get(ix.by_name, standardize(name, TRUE))
lookup_by_orcid(ix, orcid) == Get(ix.by_orcid, orcid)
lookup_by_alt_name(ix, name) == Get(ix.by_alt_name, standardize(name, TRUE))

\* _initialize_lookup_and_matcher, one pass of its loop: the author of row idx
\* and the alternative names of the row
RECURSIVE AddAltNames(_, _, _)
AddAltNames(ix, aid, alt_names) ==
    IF alt_names = <<>> THEN ix
    ELSE AddAltNames(lookup_add_alternative_name(ix, aid, Head(alt_names)), aid, Tail(alt_names))
AltNamesOf(row) == IF row.alternative_names = NoNames THEN <<>> ELSE row.alternative_names
IndexRow(ix, row, idx) ==
    AddAltNames(add_author(ix, row.Aid, row.std_fullname, row.fullname, row.orcid, idx),
                row.Aid, AltNamesOf(row))

\* NameMatcher.add_alternative_name
add_alternative_name(m, author_idx, new_alt_name) ==
    IF ~Truthy(new_alt_name) THEN [m EXCEPT !.added = FALSE]
    ELSE IF new_alt_name \notin Range(AltNamesOf(m.authors[author_idx]))
    THEN [authors |-> [m.authors EXCEPT ![author_idx].alternative_names =
                            Append(AltNamesOf(m.authors[author_idx]), new_alt_name)],
          ix |-> lookup_add_alternative_name(m.ix, m.authors[author_idx].Aid, new_alt_name),
          added |-> TRUE]
    ELSE [m EXCEPT !.added = FALSE]
AddIf(cond, m, author_idx, new_alt_name) ==
    IF cond THEN add_alternative_name(m, author_idx, new_alt_name) ELSE m

\* a result of match_name: (author_id, db_name, is_alternative)
Result(aid, name, alt) == [aid |-> aid, name |-> name, alt |-> alt]
NoMatch == Result(None, None, FALSE)

\* the name before the first "(" and the name between it and the first ")"
Find(s, c) ==
    IF c \in Range(s)
    THEN CHOOSE i \in 1..Len(s) : s[i] = c /\ \A j \in 1..(i - 1) : s[j] # c
    ELSE 0
Parenthesized(name) == "(" \in Range(name) /\ ")" \in Range(name)
MainName(name) ==
    IF Parenthesized(name) THEN Strip(SubSeq(name, 1, Find(name, "(") - 1)) ELSE name
AltName(name) ==
    IF Parenthesized(name)
    THEN Strip(SubSeq(name, Find(name, "(") + 1, Find(name, ")") - 1))
    ELSE None

\* a strategy found the author aid: the names it learns and what it returns
Hit(m, aid, add_name, name, alt_name, is_alternative) ==
    [m |-> AddIf(Truthy(alt_name),
                 AddIf(add_name, m, m.ix.by_aid[aid].idx, name),
                 m.ix.by_aid[aid].idx, alt_name),
     result |-> Result(aid, m.ix.by_aid[aid].fullname, is_alternative)]
ByOrcid(m, aid, name, alt_name, is_alternative) ==
    Hit(m, aid, is_alternative /\ name # m.ix.by_aid[aid].fullname, name, alt_name,
        is_alternative)

PruneThreshold == 100
MinScore == 50

\* the first character of the last word of a standardized name
LastInitial(x) == IF Split(x) = <<>> THEN "" ELSE Split(x)[Len(Split(x))][1]
\* the rows _match_by_components scores, in the order of the table
Candidates(tab, name_parts, threshold) ==
    IF name_parts.last # <<>> /\ Len(tab) > threshold
    THEN SelectSeq([i \in 1..Len(tab) |-> i],
                   LAMBDA i : LastInitial(tab[i].std_fullname) = name_parts.last[1])
    ELSE [i \in 1..Len(tab) |-> i]
Skipped(name_parts, db_parts) ==
    \/ name_parts.first = <<>>
    \/ db_parts.first = <<>>
    \/ name_parts.first[1] # db_parts.first[1]

\* the loop over the candidates: the row of the best match so far (0: none)
RECURSIVE BestOf(_, _, _, _, _)
\* the loop with a candidate of the score of the best taken as the new best
Scored_ties_last(tab, cands, name_parts, best, score, current_score) ==
    IF current_score >= score /\ current_score >= MinScore
    THEN BestOf(tab, Tail(cands), name_parts, Head(cands), current_score)
    ELSE BestOf(tab, Tail(cands), name_parts, best, score)
Scored(tab, cands, name_parts, best, score, current_score) ==
    IF current_score > score /\ current_score >= MinScore
    THEN BestOf(tab, Tail(cands), name_parts, Head(cands), current_score)
    ELSE BestOf(tab, Tail(cands), name_parts, best, score)
Candidate(tab, cands, name_parts, best, score, db_parts) ==
    IF Skipped(name_parts, db_parts)
    THEN BestOf(tab, Tail(cands), name_parts, best, score)
    ELSE Scored(tab, cands, name_parts, best, score,
                _calculate_match_score(name_parts, db_parts))
BestOf(tab, cands, name_parts, best, score) ==
    IF cands = <<>> THEN best
    ELSE Candidate(tab, cands, name_parts, best, score,
                   extract_complex_name(tab[Head(cands)].std_fullname))

\* NameMatcher._match_by_components
BestMatch(m, name, alt_name, best) ==
    IF best = 0 THEN [m |-> m, result |-> NoMatch]
    ELSE [m |-> AddIf(Truthy(alt_name), add_alternative_name(m, best, name), best, alt_name),
          result |-> Result(m.authors[best].Aid, m.authors[best].fullname, TRUE)]
\* _match_by_components with the first row as the best match to start with
ByComponents_first_row(m, name, alt_name, name_parts) ==
    IF name_parts.first = <<>> /\ name_parts.last = <<>>
    THEN [m |-> m, result |-> NoMatch]
    ELSE BestMatch(m, name, alt_name,
                   BestOf(m.authors, Candidates(m.authors, name_parts, PruneThreshold),
                          name_parts, 1, 0))
ByComponents(m, name, alt_name, name_parts) ==
    IF name_parts.first = <<>> /\ name_parts.last = <<>>
    THEN [m |-> m, result |-> NoMatch]
    ELSE BestMatch(m, name, alt_name,
                   BestOf(m.authors, Candidates(m.authors, name_parts, PruneThreshold),
                          name_parts, 0, 0))
_match_by_components(m, name, alt_name) ==
    ByComponents(m, name, alt_name, extract_complex_name(standardize(name, TRUE)))

\* the strategies with the exact name tried before the ORCID
Strategies_name_first(m, name, alt_name, orcid, std_name) ==
    IF Truthy(lookup_by_name(m.ix, std_name))
    THEN Hit(m, lookup_by_name(m.ix, std_name), FALSE, name, alt_name, FALSE)
    ELSE IF Truthy(orcid) /\ Truthy(lookup_by_orcid(m.ix, orcid))
    THEN ByOrcid(m, lookup_by_orcid(m.ix, orcid), name, alt_name,
                 std_name # standardize(m.ix.by_aid[lookup_by_orcid(m.ix, orcid)].fullname, TRUE))
    ELSE IF Truthy(lookup_by_alt_name(m.ix, std_name))
    THEN Hit(m, lookup_by_alt_name(m.ix, std_name), FALSE, name, alt_name, TRUE)
    ELSE _match_by_components(m, name, alt_name)

\* NameMatcher.match_name after the cache: ORCID, exact name, alternative
\* name, components
Strategies(m, name, alt_name, orcid, std_name) ==
    IF Truthy(orcid) /\ Truthy(lookup_by_orcid(m.ix, orcid))
    THEN ByOrcid(m, lookup_by_orcid(m.ix, orcid), name, alt_name,
                 std_name # standardize(m.ix.by_aid[lookup_by_orcid(m.ix, orcid)].fullname, TRUE))
    ELSE IF Truthy(lookup_by_name(m.ix, std_name))
    THEN Hit(m, lookup_by_name(m.ix, std_name), FALSE, name, alt_name, FALSE)
    ELSE IF Truthy(lookup_by_alt_name(m.ix, std_name))
    THEN Hit(m, lookup_by_alt_name(m.ix, std_name), FALSE, name, alt_name, TRUE)
    ELSE _match_by_components(m, name, alt_name)
Cleaned(m, name, orcid) ==
    Strategies(m, MainName(name), AltName(name), orcid, standardize(MainName(name), TRUE))
Uncached(m, name, orcid) ==
    Cleaned(m, Strip(name), IF IsNa(orcid) THEN None ELSE Strip(orcid))
Stored(cache, key, r) ==
    [m |-> r.m, result |-> r.result, cache |-> Put(cache, key, r.result), hit |-> FALSE]

\* match_name without the look into the cache
match_name_always(m, cache, name, orcid) ==
    Stored(cache, <<name, orcid>>, Uncached(m, name, orcid))

\* NameMatcher.match_name(name, orcid, name_cache)
match_name(m, cache, name, orcid) ==
    IF <<name, orcid>> \in DOMAIN cache
    THEN [m |-> m, result |-> cache[<<name, orcid>>], cache |-> cache, hit |-> TRUE]
    ELSE Stored(cache, <<name, orcid>>, Uncached(m, name, orcid))

----------------------------------------------------------------------------
(* Ingestion.  A contributor of an input row is given as the reference the  *)
(* name matcher resolves it to: an Aid of the author table, or the raw name *)
(* when nothing matches.                                                    *)

Aids == {"A1", "A2"}

NewRow(id, doi, title, date, contributors, urls, old) ==
    [Article_ID |-> id, doi |-> doi, title |-> title, date |-> date, authors |-> contributors,
     tracking |-> NoList, old_dois |-> old, urls |-> urls]

\* short_DOI(DOI, ID=True)
short_DOI(doi) == ReplaceChar(ReplaceChar(AfterOrg(doi), ".", "_"), "/", "&")

\* legacy_load_orcid_articles: one article per Article_ID of the file, the
\* contributors of its rows in order, without repetition
OrcidTable(file) ==
    LET keys == KeysInOrder([i \in 1..Len(file) |-> file[i].Article_ID])
        First(k) == file[CHOOSE i \in 1..Len(file) :
                            /\ file[i].Article_ID = k
                            /\ \A j \in 1..Len(file) : file[j].Article_ID = k => i <= j]
        RowsOf(k) == SelectSeq(file, LAMBDA r : r.Article_ID = k)
        Authors(k) == AppendNew(<<>>, [i \in 1..Len(RowsOf(k)) |-> RowsOf(k)[i].author])
    IN [n \in 1..Len(keys) |->
            NewRow(keys[n],
                   IF IsNa(First(keys[n]).doi) THEN None ELSE RemovePrefix(First(keys[n]).doi),
                   First(keys[n]).title, First(keys[n]).date, Authors(keys[n]), NoUrls, NoList)]

\* legacy_load_pbn_articles, one row of the file: the row of the table the
\* article already has (0 when it is new)
PbnExisting(arts, r) ==
    LET byId == {i \in 1..Len(arts) : arts[i].Article_ID = r.doi_transformed}
        DictKeys(i) == IF IsNa(arts[i].doi) \/ arts[i].doi = <<>> THEN {}
                       ELSE {RemovePrefix(arts[i].doi), <<Prefix>> \o RemovePrefix(arts[i].doi)}
        byDoi == {i \in 1..Len(arts) : r.doi \in DictKeys(i) \/ RemovePrefix(r.doi) \in DictKeys(i)}
        Last(S) == CHOOSE i \in S : \A j \in S : j <= i
    IN IF byId # {} THEN Last(byId) ELSE IF byDoi # {} THEN Last(byDoi) ELSE 0

PbnRow(arts, r) ==
    IF IsNa(r.doi_transformed) THEN arts
    ELSE LET at == PbnExisting(arts, r)
         IN IF at # 0
            THEN [arts EXCEPT ![at].authors = AppendNew(@, <<r.aid>>)]
            ELSE Append(arts, NewRow(r.doi_transformed, r.doi, r.title, r.year, <<r.aid>>,
                                     NoUrls, NoList))

RECURSIVE PbnTable(_, _)
PbnTable(arts, file) ==
    IF file = <<>> THEN arts ELSE PbnTable(PbnRow(arts, Head(file)), Tail(file))

\* legacy_load_openalex_articles
InitOldDois(arts) ==
    [i \in 1..Len(arts) |->
        [arts[i] EXCEPT !.old_dois = IF HasDoi(arts[i].doi) THEN {clean_doi(arts[i].doi)} ELSE {}]]

OaCleanDoi(r) == IF IsNa(r.doi) THEN <<>> ELSE clean_doi(r.doi)
OaExistingDoi(row) == IF IsNa(row.doi) THEN <<>> ELSE clean_doi(row.doi)

\* the DOIs of the file an article of the table has, now or in old_dois
OaDuplicateDois(arts, file) ==
    LET fileDois == {OaCleanDoi(file[i]) : i \in 1..Len(file)}
        existing == {OaExistingDoi(arts[i]) : i \in 1..Len(arts)}
        old == UNION {arts[i].old_dois : i \in {j \in 1..Len(arts) : arts[j].old_dois # NoList}}
    IN {d \in (fileDois \cap existing) \cup (old \cap fileDois) : d # <<>>}

\* step 2A for one DOI: snapshot is articles_copy, the table before the call
OaEnhance(arts, snapshot, file, doi) ==
    LET rows == SelectSeq(file, LAMBDA r : OaCleanDoi(r) = doi)
        mapped == SelectSeq(
                      LET F[i \in 0..Len(rows)] ==
                              IF i = 0 THEN <<>> ELSE F[i - 1] \o rows[i].authors
                      IN F[Len(rows)],
                      LAMBDA a : a \in Aids)
        matching == {i \in 1..Len(snapshot) :
                        \/ OaExistingDoi(snapshot[i]) = doi
                        \/ snapshot[i].old_dois # NoList /\ doi \in snapshot[i].old_dois}
    IN [i \in 1..Len(arts) |->
            IF i \in matching
            THEN [arts[i] EXCEPT
                    !.urls = [c \in UrlCols |-> IF ~IsNa(rows[1].urls[c]) THEN rows[1].urls[c] ELSE @[c]],
                    !.authors = AppendNew(@, mapped),
                    !.old_dois = (IF @ = NoList THEN {} ELSE @) \cup {doi}]
            ELSE arts[i]]

RECURSIVE OaEnhanceAll(_, _, _, _)
OaEnhanceAll(arts, snapshot, file, dois) ==
    IF dois = <<>> THEN arts
    ELSE OaEnhanceAll(OaEnhance(arts, snapshot, file, Head(dois)), snapshot, file, Tail(dois))

\* steps 3 and 4: the rows of the file not handled in step 2A, with a matched author
OaAdded(file, dups) ==
    LET Remaining(r) == OaCleanDoi(r) \notin dups
        Matched(r) == SelectSeq(r.authors, LAMBDA a : a \in Aids)
        Added(r) == Remaining(r) /\ Matched(r) # <<>>
    IN SelectSeq(file, Added)

OaNewRows(file, dups, rnd) ==
    LET Matched(r) == SelectSeq(r.authors, LAMBDA a : a \in Aids)
        add == OaAdded(file, dups)
    IN [i \in 1..Len(add) |->
            NewRow(create_article_id(add[i].doi, add[i].title, rnd[i]), add[i].doi, add[i].title,
                   add[i].year, Matched(add[i]), add[i].urls,
                   IF ~IsNa(add[i].doi) /\ add[i].doi # <<>> THEN {clean_doi(add[i].doi)} ELSE {})]

----------------------------------------------------------------------------
(* The inputs of the model *)

DoiX == <<"1", "0", ".", "1", "/", "x">>
DoiXU == <<"1", "0", ".", "1", "/", "X">>
DoiXP == <<Prefix>> \o DoiX
DoiY == <<"1", "0", ".", "1", "/", "y">>
TFooBar == <<"F", "o", "o", " ", "B", "a", "r">>
TfoobarLow == <<"f", "o", "o", " ", "b", "a", "r", "!">>
TFoo_Bar == <<"F", "o", "o", "_", "B", "a", "r">>
TFooBarBaz == <<"F", "o", "o", " ", "B", "a", "r", " ", "B", "a", "z">>
Y2019 == <<"2", "0", "1", "9">>
Y2020 == <<"2", "0", "2", "0">>
DateIso == DStr(Y2019 \o <<"-", "0", "5", "-", "0", "1">>)
Url1 == [NoUrls EXCEPT !["pdf_url"] = <<"u", "1">>]
Url2 == [NoUrls EXCEPT !["oa_url"] = <<"u", "2">>]
Suffixes == {"AAA", "BBB"}
\* the draws that can tell: create_article_id draws a suffix only without a DOI
Draws(doi) == IF HasDoi(doi) THEN {"AAA"} ELSE Suffixes
UnknownId == <<"z", "z">>

OrcidPool ==
    { [Article_ID |-> short_DOI(DoiX), doi |-> DoiXP, title |-> TFooBar, date |-> DateIso, author |-> "A1"],
      [Article_ID |-> short_DOI(DoiXU), doi |-> DoiXU, title |-> TFooBarBaz, date |-> DNone, author |-> "A2"],
      [Article_ID |-> <<"h", "1">>, doi |-> None, title |-> TfoobarLow, date |-> DInt(Y2020), author |-> "n1"],
      [Article_ID |-> short_DOI(DoiY), doi |-> DoiY, title |-> TFooBar, date |-> DNone, author |-> "A2"] }

PbnPool ==
    { [doi_transformed |-> <<"1", "0", "-", "1", "_", "y">>, doi |-> DoiY, title |-> TFooBarBaz,
       year |-> DInt(Y2020), aid |-> "A2"],
      [doi_transformed |-> <<"1", "0", "-", "1", "_", "x">>, doi |-> DoiX, title |-> TFooBar,
       year |-> DInt(Y2019), aid |-> "A2"] }

OpenAlexPool ==
    { [doi |-> DoiX, title |-> TFooBar, year |-> DInt(Y2019), authors |-> <<"A1">>, urls |-> Url1],
      [doi |-> None, title |-> TFooBar, year |-> DInt(Y2019), authors |-> <<"A2", "n1">>, urls |-> NoUrls],
      [doi |-> DoiXP, title |-> TFooBarBaz, year |-> DNone, authors |-> <<"A1", "A2">>, urls |-> Url2],
      [doi |-> DoiY, title |-> TfoobarLow, year |-> DNone, authors |-> <<"n1">>, urls |-> NoUrls] }

\* a file of OpenAlex with two titles that differ in a "_" only: two articles
\* of the first title, then three of the second with two DOIs among them
LongFile ==
    << [doi |-> DoiX, title |-> TFooBar, year |-> DInt(Y2019), authors |-> <<"A1">>, urls |-> Url1],
       [doi |-> None, title |-> TFooBar, year |-> DInt(Y2019), authors |-> <<"A2", "n1">>, urls |-> NoUrls],
       [doi |-> DoiXP, title |-> TFoo_Bar, year |-> DNone, authors |-> <<"A1">>, urls |-> NoUrls],
       [doi |-> None, title |-> TFoo_Bar, year |-> DNone, authors |-> <<"A2">>, urls |-> NoUrls],
       [doi |-> DoiY, title |-> TFoo_Bar, year |-> DNone, authors |-> <<"A1", "A2">>, urls |-> Url2] >>

\* a file of OpenAlex with two titles made of the same words: "Foo Bar"
\* twice, and "Foo - Bar" with the DOI of the first row
TFooDashBar == <<"F", "o", "o", " ", "-", " ", "B", "a", "r">>
SimilarFile ==
    << [doi |-> DoiX, title |-> TFooBar, year |-> DInt(Y2019), authors |-> <<"A1">>, urls |-> Url1],
       [doi |-> None, title |-> TFooBar, year |-> DInt(Y2019), authors |-> <<"A2", "n1">>, urls |-> NoUrls],
       [doi |-> DoiXP, title |-> TFooDashBar, year |-> DNone, authors |-> <<"A1", "A2">>, urls |-> Url2],
       [doi |-> DoiY, title |-> TFooDashBar, year |-> DNone, authors |-> <<"n1">>, urls |-> NoUrls] >>

\* the files made of rows of file, in the order they have in file
SubFiles(file) ==
    {[k \in 1..Cardinality(S) |-> file[SeqOfSet(S)[k]]] : S \in SUBSET (1..Len(file)) \ {{}}}

\* the files: the sequences of distinct rows of a pool, up to n rows
Files(pool, n) ==
    UNION {{f \in [1..k -> pool] : \A i, j \in 1..k : i # j => f[i] # f[j]} : k \in 1..n}

Perms(S) == {f \in [1..Cardinality(S) -> S] : Range(f) = S}

\* the suffixes drawn for the rows legacy_load_openalex_articles adds
OaDraws(file, dups) ==
    LET add == OaAdded(file, dups)
    IN {rnd \in [1..Len(add) -> Suffixes] : \A i \in 1..Len(add) : rnd[i] \in Draws(add[i].doi)}

\* the suffixes merge_articles can draw for the id of the main article: one
\* is drawn only when no article of the list has a DOI
MergeDraws(arts, ids) ==
    IF \E i \in 1..Len(arts) : arts[i].Article_ID \in Range(ids) /\ HasDoi(arts[i].doi)
    THEN {"AAA"} ELSE Suffixes

\* the lists of ids a caller passes to merge_articles
MergeInputs(arts) ==
    LET present == {arts[i].Article_ID : i \in 1..Len(arts)} \cup {UnknownId}
    IN UNION {[1..k -> present] : k \in 0..MaxIds}

----------------------------------------------------------------------------
(* The article registry *)

\* a call and what it returned: n ids were passed, unknown tells whether one of
\* them is the Article_ID of no article; main and located are the rows a
\* successful merge wrote to and read from
Call(op, ok, id, n, main, located) ==
    [op |-> op, ok |-> ok, id |-> id, n |-> n, unknown |-> FALSE, main |-> main,
     located |-> located]
IsUnknown(arts, id) == \A i \in 1..Len(arts) : arts[i].Article_ID # id
NoReport == [conflicts |-> <<>>, similar |-> <<>>]

InitReg ==
    /\ articles = <<>>
    /\ trackingCol = FALSE
    /\ oldDoisCol = FALSE
    /\ pc = "idle"
    /\ groups = <<>>
    /\ toDelete = {}
    /\ ncalls = 0
    /\ last = Call("init", TRUE, None, 0, 0, {})
    /\ report = NoReport
    /\ cleanPre = <<>>

LoadOrcid ==
    /\ UNCHANGED <<nameVars, call>>
    /\ pc = "idle" /\ ncalls < MaxCalls
    /\ \E file \in Files(OrcidPool, MaxArticles) :
        /\ articles' = OrcidTable(file)
        /\ last' = Call("load_orcid", TRUE, None, 0, 0, {})
    /\ trackingCol' = FALSE
    /\ oldDoisCol' = FALSE
    /\ ncalls' = ncalls + 1
    /\ report' = NoReport /\ cleanPre' = <<>>
    /\ UNCHANGED <<pc, groups, toDelete>>

LoadPbn ==
    /\ UNCHANGED <<nameVars, call>>
    /\ pc = "idle" /\ ncalls < MaxCalls
    /\ \E file \in Files(PbnPool, MaxArticles) :
        /\ Len(PbnTable(articles, file)) <= MaxArticles
        /\ articles' = PbnTable(articles, file)
        /\ last' = Call("load_pbn", TRUE, None, 0, 0, {})
    /\ ncalls' = ncalls + 1
    /\ report' = NoReport /\ cleanPre' = <<>>
    /\ UNCHANGED <<trackingCol, oldDoisCol, pc, groups, toDelete>>

\* legacy_load_openalex_articles on one of the files; the table holds at most
\* cap articles afterwards
OpenalexLoad(files, cap) ==
    /\ UNCHANGED <<nameVars, call>>
    /\ pc = "idle" /\ ncalls < MaxCalls
    /\ \E file \in files :
        LET base == IF Len(articles) > 0 /\ ~oldDoisCol THEN InitOldDois(articles) ELSE articles
            dups == IF Len(articles) > 0 THEN OaDuplicateDois(base, file) ELSE {}
        IN \E order \in Perms(dups), rnd \in OaDraws(file, dups) :
            LET new == OaNewRows(file, dups, rnd)
            IN /\ Len(base) + Len(new) <= cap
               /\ articles' = OaEnhanceAll(base, base, file, order) \o new
               /\ oldDoisCol' = (oldDoisCol \/ Len(articles) > 0 \/ new # <<>>)
               /\ last' = Call("load_openalex", TRUE, None, 0, 0, {})
    /\ ncalls' = ncalls + 1
    /\ report' = NoReport /\ cleanPre' = <<>>
    /\ UNCHANGED <<trackingCol, pc, groups, toDelete>>

LoadOpenalex == OpenalexLoad(Files(OpenAlexPool, MaxArticles), MaxArticles)

\* the same call on the rows of LongFile
LoadOpenalexLong == OpenalexLoad(SubFiles(LongFile), Len(LongFile))

\* the same call on the rows of SimilarFile
LoadOpenalexSimilar == OpenalexLoad(SubFiles(SimilarFile), Len(SimilarFile))

MergeReturn(r, ids) ==
    /\ articles' = r.arts
    /\ trackingCol' = (trackingCol \/ r.ok)
    /\ oldDoisCol' = (oldDoisCol \/ r.ok)
    /\ last' = [Call("merge", r.ok, r.id, Len(ids), r.main, r.located)
                    EXCEPT !.unknown = \E k \in 1..Len(ids) : IsUnknown(articles, ids[k])]

MergeArticles ==
    /\ UNCHANGED <<nameVars, call>>
    /\ pc = "idle" /\ ncalls < MaxCalls
    /\ \E ids \in MergeInputs(articles) : \E rnd \in MergeDraws(articles, ids) :
        MergeReturn(merge_articles(articles, ids, rnd), ids)
    /\ report' = NoReport /\ cleanPre' = <<>>
    /\ ncalls' = ncalls + 1
    /\ UNCHANGED <<pc, groups, toDelete>>

----------------------------------------------------------------------------
(* clean(), step by step *)

InitTracking(arts) == [i \in 1..Len(arts) |-> [arts[i] EXCEPT !.tracking = {arts[i].Article_ID}]]

\* drop(index=articles_to_delete) and reset_index(drop=True)
Drop(arts, del) ==
    LET keep == SeqOfSet({i \in 1..Len(arts) : i \notin del})
    IN [k \in 1..Len(keep) |-> arts[keep[k]]]

\* all_dois of a group: the DOIs and old_dois of its articles
AllDois(arts, g) ==
    UNION {(IF HasDoi(arts[g[k]].doi) THEN {clean_doi(arts[g[k]].doi)} ELSE {})
             \cup (IF arts[g[k]].old_dois # NoList THEN arts[g[k]].old_dois ELSE {}) : k \in 1..Len(g)}

\* the row of the group clean() takes for the main article: the first one
\* carrying the id merge_articles returned (0: none)
FoundMain(arts, g, id) ==
    LET at == {k \in 1..Len(g) : arts[g[k]].Article_ID = id}
    IN IF at = {} THEN 0 ELSE g[CHOOSE k \in at : \A j \in at : k <= j]

\* one group of a phase: merge it, give the main article the DOIs of the
\* group and mark the others for deletion
GroupIds(arts, g) == [k \in 1..Len(g) |-> arts[g[k]].Article_ID]
GroupKept(arts, g, r, mainIdx) ==
    IF r.ok /\ mainIdx # 0
    THEN [arts |-> [r.arts EXCEPT ![mainIdx].old_dois = AllDois(arts, g)],
          del |-> Range(g) \ {mainIdx}, r |-> r, n |-> Len(g)]
    ELSE [arts |-> r.arts, del |-> {}, r |-> r, n |-> Len(g)]
GroupMerged(arts, g, r) == GroupKept(arts, g, r, FoundMain(r.arts, g, r.id))
CleanGroup(arts, g, rnd) == GroupMerged(arts, g, merge_articles(arts, GroupIds(arts, g), rnd))

GroupReturn(c, op) ==
    /\ articles' = c.arts
    /\ toDelete' = toDelete \cup c.del
    /\ last' = Call(op, c.r.ok, c.r.id, c.n, c.r.main, c.r.located)

CleanStart ==
    /\ UNCHANGED <<nameVars, call>>
    /\ pc = "idle" /\ ncalls < MaxCalls
    /\ IF Len(articles) = 0
       THEN /\ last' = Call("clean", TRUE, None, 0, 0, {})
            /\ UNCHANGED <<articles, trackingCol, oldDoisCol, pc, groups, toDelete>>
       ELSE LET a1 == ensure_years_only(articles)
                a2 == IF trackingCol THEN a1 ELSE InitTracking(a1)
                a3 == IF oldDoisCol THEN a2 ELSE InitOldDois(a2)
            IN /\ articles' = a3
               /\ trackingCol' = TRUE
               /\ oldDoisCol' = TRUE
               /\ groups' = identify_doi_duplicates(a3)
               /\ toDelete' = {}
               /\ pc' = "doi"
               /\ last' = Call("clean_start", TRUE, None, 0, 0, {})
    /\ cleanPre' = articles
    /\ report' = NoReport
    /\ ncalls' = ncalls + 1

CleanDoiGroup ==
    /\ UNCHANGED <<nameVars, call>>
    /\ pc = "doi" /\ groups # <<>>
    /\ \E rnd \in MergeDraws(articles, GroupIds(articles, Head(groups))) :
        GroupReturn(CleanGroup(articles, Head(groups), rnd), "clean_doi_group")
    /\ groups' = Tail(groups)
    /\ UNCHANGED <<trackingCol, oldDoisCol, pc, ncalls, report, cleanPre>>

\* the end of step 1 with the title groups computed before the removal
CleanDoiDone_groups_first ==
    /\ UNCHANGED <<nameVars, call>>
    /\ pc = "doi" /\ groups = <<>>
    /\ LET a == Drop(articles, toDelete)
           t == identify_title_duplicates(articles)
       IN /\ articles' = a
          /\ groups' = t.no_conflicts
          /\ report' = [report EXCEPT !.conflicts = t.conflicts]
    /\ toDelete' = {}
    /\ pc' = "title"
    /\ last' = Call("clean_doi_done", TRUE, None, 0, 0, {})
    /\ UNCHANGED <<trackingCol, oldDoisCol, ncalls, cleanPre>>

CleanDoiDone ==
    /\ UNCHANGED <<nameVars, call>>
    /\ pc = "doi" /\ groups = <<>>
    /\ LET a == Drop(articles, toDelete)
           t == identify_title_duplicates(a)
       IN /\ articles' = a
          /\ groups' = t.no_conflicts
          /\ report' = [report EXCEPT !.conflicts = t.conflicts]
    /\ toDelete' = {}
    /\ pc' = "title"
    /\ last' = Call("clean_doi_done", TRUE, None, 0, 0, {})
    /\ UNCHANGED <<trackingCol, oldDoisCol, ncalls, cleanPre>>

CleanTitleGroup ==
    /\ UNCHANGED <<nameVars, call>>
    /\ pc = "title" /\ groups # <<>>
    /\ \E rnd \in MergeDraws(articles, GroupIds(articles, Head(groups))) :
        GroupReturn(CleanGroup(articles, Head(groups), rnd), "clean_title_group")
    /\ groups' = Tail(groups)
    /\ UNCHANGED <<trackingCol, oldDoisCol, pc, ncalls, report, cleanPre>>

CleanTitleDone ==
    /\ UNCHANGED <<nameVars, call>>
    /\ pc = "title" /\ groups = <<>>
    /\ articles' = Drop(articles, toDelete)
    /\ toDelete' = {}
    /\ pc' = "similar"
    /\ last' = Call("clean_title_done", TRUE, None, 0, 0, {})
    /\ UNCHANGED <<trackingCol, oldDoisCol, groups, ncalls, report, cleanPre>>

CleanSimilar ==
    /\ UNCHANGED <<nameVars, call>>
    /\ pc = "similar"
    /\ report' = [report EXCEPT !.similar = identify_similar_titles(articles)]
    /\ pc' = "idle"
    /\ last' = Call("clean", TRUE, None, 0, 0, {})
    /\ UNCHANGED <<articles, trackingCol, oldDoisCol, groups, toDelete, ncalls, cleanPre>>

NextReg ==
    \/ LoadOrcid
    \/ LoadPbn
    \/ LoadOpenalex
    \/ MergeArticles
    \/ CleanStart
    \/ CleanDoiGroup
    \/ CleanDoiDone
    \/ CleanTitleGroup
    \/ CleanTitleDone
    \/ CleanSimilar

\* ingestion of a long file of OpenAlex, and clean()
NextLong ==
    \/ LoadOpenalexLong
    \/ CleanStart
    \/ CleanDoiGroup
    \/ CleanDoiDone
    \/ CleanTitleGroup
    \/ CleanTitleDone
    \/ CleanSimilar

\* ingestion of a file of OpenAlex with similar titles, and clean()
NextSimilar ==
    \/ LoadOpenalexSimilar
    \/ CleanStart
    \/ CleanDoiGroup
    \/ CleanDoiDone
    \/ CleanTitleGroup
    \/ CleanTitleDone
    \/ CleanSimilar

----------------------------------------------------------------------------
(* The inputs of the name matcher *)

AnnKow == <<"A", "n", "n", " ", "K", "o", "w">>
ann_kow == <<"a", "n", "n", "_", "k", "o", "w">>
BeaNowakKow == <<"B", "e", "a", " ", "N", "o", "w", "a", "k", " ", EnDash, " ", "K", "o", "w">>
JoFox == <<"J", "o", FwLowLine, "F", "o", "x">>
AKow == <<"A", " ", "K", "o", "w">>
BeaKowBKow == <<"B", "e", "a", " ", "K", "o", "w", " ", "(", "B", " ", "K", "o", "w", ")">>
Orcid1 == <<"o", "1">>
Orcid2 == <<"o", "2">>

AuthorPool ==
    { [fullname |-> AnnKow, code |-> "AAA", orcid |-> Orcid1],
      [fullname |-> ann_kow, code |-> "BBB", orcid |-> None],
      [fullname |-> BeaNowakKow, code |-> "CCC", orcid |-> Orcid2],
      [fullname |-> JoFox, code |-> "DDD", orcid |-> None] }
QueryNames == {AnnKow, AKow, BeaKowBKow}
QueryOrcids == {None, Orcid1, Orcid2}
AltNames == {AKow, ann_kow}

----------------------------------------------------------------------------
(* The author table, its index and the name matcher *)

NCall(op, key, result, hit, added) ==
    [op |-> op, key |-> key, result |-> result, hit |-> hit, added |-> added]
NoKey == <<None, None>>
Matcher == [authors |-> authors, ix |-> lookup, added |-> FALSE]
Ready == Len(authors) > 0 /\ built = Len(authors)

InitNames ==
    /\ authors = <<>>
    /\ lookup = NoIndex
    /\ name_cache = EmptyDict
    /\ built = 0
    /\ nlast = NCall("init", NoKey, NoMatch, FALSE, FALSE)
    /\ nameCalls = 0

\* legacy_load_authors: the table, then _initialize_lookup_and_matcher
LoadAuthors ==
    /\ UNCHANGED <<regVars, call>>
    /\ built = Len(authors) /\ nameCalls < MaxNameCalls
    /\ \E file \in Files(AuthorPool, MaxAuthors) : authors' = legacy_load_authors(file)
    /\ lookup' = NoIndex
    /\ name_cache' = EmptyDict
    /\ built' = 0
    /\ nlast' = NCall("load_authors", NoKey, NoMatch, FALSE, FALSE)
    /\ nameCalls' = nameCalls + 1

\* load(): _initialize_lookup_and_matcher again, on the table as it is
Reinitialize ==
    /\ UNCHANGED <<regVars, call>>
    /\ Ready /\ nameCalls < MaxNameCalls
    /\ lookup' = NoIndex
    /\ name_cache' = EmptyDict
    /\ built' = 0
    /\ nlast' = NCall("load", NoKey, NoMatch, FALSE, FALSE)
    /\ nameCalls' = nameCalls + 1
    /\ UNCHANGED authors

\* one pass of the loop of _initialize_lookup_and_matcher
AddAuthor ==
    /\ UNCHANGED <<regVars, call>>
    /\ built < Len(authors)
    /\ lookup' = IndexRow(lookup, authors[built + 1], built + 1)
    /\ built' = built + 1
    /\ nlast' = NCall("add_author", <<authors[built + 1].std_fullname, None>>, NoMatch,
                      FALSE, FALSE)
    /\ UNCHANGED <<authors, name_cache, nameCalls>>

\* a loader starts with an empty name_cache
NewCache ==
    /\ UNCHANGED <<regVars, call>>
    /\ Ready /\ name_cache # EmptyDict
    /\ name_cache' = EmptyDict
    /\ nlast' = NCall("new_cache", NoKey, NoMatch, FALSE, FALSE)
    /\ UNCHANGED <<authors, lookup, built, nameCalls>>

MatchReturn(r, key) ==
    /\ authors' = r.m.authors
    /\ lookup' = r.m.ix
    /\ name_cache' = r.cache
    /\ nlast' = NCall("match_name", key, r.result, r.hit, FALSE)

\* compare_name(name, orcid, name_cache)
MatchName ==
    /\ UNCHANGED <<regVars, call>>
    /\ Ready /\ nameCalls < MaxNameCalls
    /\ \E name \in QueryNames, orcid \in QueryOrcids :
        MatchReturn(match_name(Matcher, name_cache, name, orcid), <<name, orcid>>)
    /\ nameCalls' = nameCalls + 1
    /\ UNCHANGED built

AddReturn(m, key) ==
    /\ authors' = m.authors
    /\ lookup' = m.ix
    /\ nlast' = NCall("add_alternative_name", key, NoMatch, FALSE, m.added)

\* legacy_import_alternative_names, one name: add_alternative_name(idx, name)
AddAlternativeName ==
    /\ UNCHANGED <<regVars, call>>
    /\ Ready /\ nameCalls < MaxNameCalls
    /\ \E idx \in 1..Len(authors), name \in AltNames :
        AddReturn(add_alternative_name(Matcher, idx, name), <<name, authors[idx].Aid>>)
    /\ nameCalls' = nameCalls + 1
    /\ UNCHANGED <<name_cache, built>>

NextNames ==
    \/ LoadAuthors
    \/ Reinitialize
    \/ AddAuthor
    \/ NewCache
    \/ MatchName
    \/ AddAlternativeName

(***************************************************************************)
(* The functions of the tools, applied to drawn inputs                     *)
(***************************************************************************)

\* tools_SONaa.clean_date: what it returns, and the error it raises
Unrecovered == <<"u", "n", "r", "e", "c", "o", "v", "e", "r", "e", "d">>
DatePartLen == 4
NoError == "<no error>"
Returned(v) == [out |-> DStr(v), raised |-> NoError]
Raised(e) == [out |-> DNone, raised |-> e]
DateParts(s) == SelectSeq(SplitOn(ReplaceChar(s, "/", "-"), "-"), LAMBDA item : Len(item) = DatePartLen)
FirstPart(parts) == IF parts = <<>> THEN Raised("IndexError") ELSE Returned(parts[1])
clean_date(date) ==
    IF date = Unrecovered THEN Returned(date)
    ELSE IF Len(date) = DatePartLen THEN Returned(date)
    ELSE FirstPart(DateParts(date))

\* every text of at most n characters of the set chars
TextsUpTo(chars, n) == UNION {[1..k -> chars] : k \in 0..n}

MaxNameLen == 3
\* a letter of each case, the underscore, the hyphen and the space, and the
\* characters of DASH_CHARS, of WHITESPACE_CHARS and of NFKD the model has
NameChars == {"a", "B", "_", "-", " ", EnDash, FwHyphen, FwLowLine, Nbsp, Ogham}
NameTexts == TextsUpTo(NameChars, MaxNameLen)

ToolCall(op, args, out, raised) == [op |-> op, args |-> args, out |-> out, raised |-> raised]
\* the result of a call is written as a date is: its type and its text
InitCall == call = ToolCall("none", <<>>, DNone, NoError)
\* a behaviour of SpecTools is one call: no function of the tools keeps state
NotCalled == call.op = "none"

\* standardize(name_str, to_lower)
Standardize ==
    /\ UNCHANGED <<regVars, nameVars>>
    /\ NotCalled
    /\ \E name_str \in NameTexts \cup {None}, to_lower \in BOOLEAN :
        call' = ToolCall("standardize", <<name_str, to_lower>>,
                         DStr(standardize(name_str, to_lower)), NoError)

MaxDateLen == 5
\* digits that make a year and digits that make none, the two separators
\* of clean_date, and a letter
DateChars == {"1", "9", "-", "/", "x"}
DateTexts == TextsUpTo(DateChars, MaxDateLen) \cup {Unrecovered}
Dates == {DStr(s) : s \in DateTexts} \cup {DInt(s) : s \in TextsUpTo({"1", "9"}, MaxDateLen) \ {<<>>}}
             \cup {DNone}

\* clean_date(date) of a row whose date is a string
CleanDate ==
    /\ UNCHANGED <<regVars, nameVars>>
    /\ NotCalled
    /\ \E date \in DateTexts :
        call' = ToolCall("clean_date", <<DStr(date)>>, clean_date(date).out,
                         clean_date(date).raised)

\* ensure_years_only, the date of one row
EnsureYearsOnly ==
    /\ UNCHANGED <<regVars, nameVars>>
    /\ NotCalled
    /\ \E date \in Dates :
        call' = ToolCall("ensure_years_only", <<date>>, YearOnly(date), NoError)

\* the decimal digits of a natural number
RECURSIVE NumText(_)
NumText(n) ==
    IF n < 10 THEN <<Digits10[n + 1]>> ELSE Append(NumText(n \div 10), Digits10[(n % 10) + 1])

\* standardized names of one, two and three words: first names shorter than
\* FirstNameMinLen and not, surnames shorter than ContainedMinLen and not,
\* plain and hyphenated, with and without a compound indicator before them
ScoreFirsts == {<<"a">>, <<"a", "n", "n">>, <<"a", "n", "n", "a">>}
ScoreParts == {<<"k", "o", "w">>, <<"k", "o", "w", "a", "l">>, <<"n", "o", "w", "a", "k">>}
ScoreSurnames == ScoreParts \cup {p \o <<"-">> \o q : p \in ScoreParts, q \in ScoreParts}
ScoreNames ==
    ScoreFirsts
        \cup {f \o <<" ">> \o s : f \in ScoreFirsts, s \in ScoreSurnames}
        \cup {f \o <<" ", "v", "a", "n", " ">> \o s : f \in ScoreFirsts, s \in ScoreSurnames}

\* _calculate_match_score(name_parts, db_parts), the parts of two names as
\* _match_by_components extracts them
CalculateMatchScore ==
    /\ UNCHANGED <<regVars, nameVars>>
    /\ NotCalled
    /\ \E name \in ScoreNames, db_name \in ScoreNames :
        call' = ToolCall("calculate_match_score", <<name, db_name>>,
                         DInt(NumText(_calculate_match_score(extract_complex_name(name),
                                                             extract_complex_name(db_name)))),
                         NoError)
\* an author table of more rows than PruneThreshold: PruneThreshold authors
\* of one name, and after them one author of a drawn name
BoBox == <<"B", "o", " ", "B", "o", "x">>
ManyAuthors == [k \in 1..PruneThreshold |-> AuthorOf(BoBox, NumText(k), None)]
\* the index _initialize_lookup_and_matcher builds of these authors, none of
\* which has an ORCID or an alternative name: the last row of a name and of
\* an Aid keeps it
LastRow(S) == CHOOSE k \in S : \A j \in S : j <= k
RowsNamed(n) == {k \in 1..PruneThreshold : ManyAuthors[k].std_fullname = n}
RowsOfAid(a) == {k \in 1..PruneThreshold : ManyAuthors[k].Aid = a}
IndexedAuthor(k) ==
    [fullname |-> ManyAuthors[k].fullname, std_name |-> ManyAuthors[k].std_fullname,
     orcid |-> ManyAuthors[k].orcid, idx |-> k]
ManyIndexed ==
    [by_name |-> [n \in {ManyAuthors[k].std_fullname : k \in 1..PruneThreshold}
                    |-> ManyAuthors[LastRow(RowsNamed(n))].Aid],
     by_aid |-> [a \in {ManyAuthors[k].Aid : k \in 1..PruneThreshold}
                    |-> IndexedAuthor(LastRow(RowsOfAid(a)))],
     by_orcid |-> EmptyDict,
     by_alt_name |-> EmptyDict]
OneMore(fullname) == AuthorOf(_format_name(fullname), "AAA", None)
LargeMatcher(fullname) ==
    [authors |-> Append(ManyAuthors, OneMore(fullname)),
     ix |-> IndexRow(ManyIndexed, OneMore(fullname), PruneThreshold + 1),
     added |-> FALSE]
AidOut(r) == IF r.aid = None THEN DNone ELSE DStr(r.aid)

\* _match_by_components(name, None) on the large table, for a name of two
\* words or more, whose last word the rows of the table are compared with
MatchByComponents ==
    /\ UNCHANGED <<regVars, nameVars>>
    /\ NotCalled
    /\ \E name \in ScoreNames \ ScoreFirsts, fullname \in ScoreNames :
        call' = ToolCall("match_by_components", <<name, fullname>>,
                         AidOut(_match_by_components(LargeMatcher(fullname), name, None).result),
                         NoError)

\* tools_SONaa.long_DOI(DOI, hyperlink)
long_DOI(doi, hyperlink) ==
    IF hyperlink THEN <<Prefix>> \o ReplaceChar(ReplaceChar(doi, "_", "."), "&", "/")
    ELSE ReplaceChar(ReplaceChar(doi, "_", "."), "&", "/")

MaxDoiLen == 3
\* a digit, a letter of each case, the two characters create_article_id
\* replaces, the two it replaces them with, and the prefix of a link
DoiChars == {"1", "a", "A", ".", "/", "_", "&", Prefix}
DoiTexts == TextsUpTo(DoiChars, MaxDoiLen)

\* create_article_id(doi=doi, title=title), the random suffix drawn
CreateArticleId ==
    /\ UNCHANGED <<regVars, nameVars>>
    /\ NotCalled
    /\ \E doi \in DoiTexts \cup {None, EmptyWord}, title \in {None, TFooBar} :
        \E rnd \in Draws(doi) :
            call' = ToolCall("create_article_id", <<doi, title>>,
                             DStr(create_article_id(doi, title, rnd)), NoError)
NextTools ==
    \/ Standardize
    \/ CleanDate
    \/ EnsureYearsOnly
    \/ CalculateMatchScore
    \/ MatchByComponents
    \/ CreateArticleId

vars == <<regVars, nameVars, call>>
Init == InitReg /\ InitNames /\ InitCall
Next == NextReg
Spec == Init /\ [][Next]_vars
SpecNames == Init /\ [][NextNames]_vars
SpecLong == Init /\ [][NextLong]_vars
SpecTools == Init /\ [][NextTools]_vars
SpecSimilar == Init /\ [][NextSimilar]_vars

----------------------------------------------------------------------------
(* Properties of the article registry *)

IsMerge(l) == l.op = "merge"
Authors(row) == Range(row.authors)
Tracking(row) == IF row.tracking = NoList THEN {} ELSE row.tracking
OldDois(row) == IF row.old_dois = NoList THEN {} ELSE row.old_dois

\* C1: merge_articles called with fewer than two ids, or with an id that is the
\* Article_ID of no article, reports failure and leaves the table as it was:
\* the same rows with the same fields, and the same columns.
C1_MergeRejectsBadIds ==
    [][(IsMerge(last') /\ (last'.n < 2 \/ last'.unknown))
        => (~last'.ok /\ articles' = articles
            /\ trackingCol' = trackingCol /\ oldDoisCol' = oldDoisCol)]_vars

\* a merge of two ids, one of them unknown, on a table with articles was refused
C1_Witness ==
    /\ IsMerge(last) /\ last.unknown /\ last.n >= 2 /\ ~last.ok
    /\ Len(articles) >= 2

\* C3: a successful merge_articles over n located articles removes the n - 1
\* secondary ones: the table is n - 1 rows shorter after the call.
C3_MergeRemovesSecondaries ==
    [][(IsMerge(last') /\ last'.ok)
        => Len(articles') = Len(articles) - (Cardinality(last'.located) - 1)]_vars

\* C7: in every state of the registry each article's tracking holds the
\* article's current Article_ID (an article without a tracking value stands
\* for itself, as merge_articles reads it).
C7_TrackingHoldsCurrentId ==
    \A i \in 1..Len(articles) : articles[i].Article_ID \in TrackingOf(articles[i])

\* the fields dst holds of src: authors, tracking, old_dois
Holds(dst, src) ==
    /\ Authors(src) \subseteq Authors(dst)
    /\ Tracking(src) \subseteq Tracking(dst)
    /\ OldDois(src) \subseteq OldDois(dst)

IsGroupMerge(l) == l.op \in {"clean_doi_group", "clean_title_group"}
TheOne(S) == CHOOSE x \in S : TRUE

\* C2: after a successful merge every author, tracking entry and old DOI of
\* every merged article is in the surviving one: in the main article of a
\* direct merge_articles call, and in the article clean() keeps of a group
\* when it deletes the others.
C2_MergeLosesNothing ==
    [][/\ (IsMerge(last') /\ last'.ok)
            => \A i \in last'.located : Holds(articles'[last'.main], articles[i])
       /\ (IsGroupMerge(last') /\ toDelete' # toDelete)
            => \A i \in Range(Head(groups)) :
                  Holds(articles'[TheOne(Range(Head(groups)) \ toDelete')], articles[i])]_vars

\* the direct half of C2: the main article of a successful merge_articles
\* call holds the authors, tracking and old DOIs of every article it located
C2_DirectMergeLosesNothing ==
    [][(IsMerge(last') /\ last'.ok)
        => \A i \in last'.located : Holds(articles'[last'.main], articles[i])]_vars

\* C4: clean() on the three articles (10.1/x, "Foo Bar"), (no DOI, "Foo Bar",
\* same year), (10.1/x, "Foo Bar Baz"), with the ids create_article_id gives
\* them, ends with one article whose tracking holds the three ids.
IsC4Registry(arts) ==
    /\ Len(arts) = 3
    /\ HasDoi(arts[1].doi) /\ clean_doi(arts[1].doi) = DoiX /\ arts[1].title = TFooBar
    /\ ~HasDoi(arts[2].doi) /\ arts[2].title = TFooBar /\ arts[2].date = arts[1].date
    /\ HasDoi(arts[3].doi) /\ clean_doi(arts[3].doi) = DoiX /\ arts[3].title = TFooBarBaz
    /\ \A i \in 1..3 : \E rnd \in Suffixes :
            arts[i].Article_ID = create_article_id(arts[i].doi, arts[i].title, rnd)
CleanReturned == pc = "idle" /\ last.op = "clean"
C4_EndToEnd ==
    (CleanReturned /\ IsC4Registry(cleanPre))
        => /\ Len(articles) = 1
           /\ \A i \in 1..3 : cleanPre[i].Article_ID \in Tracking(articles[1])

\* C5: when clean() classifies the title groups, every two articles that
\* share a standardized title of at least 5 characters and carry different
\* normalized DOIs are in one reported conflict group; from then on clean()
\* passes no two articles of a conflict group to one merge, marks none of them
\* for deletion, drops none of them and keeps the group in its report.
SameTitleOtherDoi(arts, i, j) ==
    /\ ValidTitleKey(StdTitle(arts[i])) /\ StdTitle(arts[i]) = StdTitle(arts[j])
    /\ HasDoi(arts[i].doi) /\ HasDoi(arts[j].doi)
    /\ clean_doi(arts[i].doi) # clean_doi(arts[j].doi)
InConflict(i) == \E k \in 1..Len(report.conflicts) : i \in Range(report.conflicts[k])
C5_ConflictsNeverMerged ==
    [][/\ (pc = "doi" /\ pc' = "title")
            => \A i, j \in 1..Len(articles') :
                  SameTitleOtherDoi(articles', i, j)
                      => \E k \in 1..Len(report'.conflicts) :
                            {i, j} \subseteq Range(report'.conflicts[k])
       /\ (pc = "title" /\ pc' = "title")
            => /\ \A k \in 1..Len(report.conflicts) :
                      /\ Range(report.conflicts[k]) \cap toDelete' = {}
                      /\ Cardinality(Range(report.conflicts[k]) \cap last'.located) <= 1
               /\ report' = report
       /\ (pc = "title" /\ pc' = "similar")
            => /\ \A i \in 1..Len(articles) :
                      InConflict(i) => \E j \in 1..Len(articles') : articles'[j] = articles[i]
               /\ report' = report
       /\ (pc = "similar" /\ pc' = "idle") => report'.conflicts = report.conflicts]_vars

\* C6: for three articles a, b, c of the table, merging [a, b] and then the
\* returned id with c succeeds whenever merging [a, b, c] does, and gives the
\* main article the same tracking set and the same author set.
SameSets(r2, r3) ==
    /\ r2.ok
    /\ Tracking(r2.arts[r2.main]) = Tracking(r3.arts[r3.main])
    /\ Authors(r2.arts[r2.main]) = Authors(r3.arts[r3.main])
ThenWith(r1, c, rnd) == merge_articles(r1.arts, <<r1.id, c>>, rnd)
Associative(arts, a, b, c) ==
    \A s1, s2, s3 \in Suffixes :
        (merge_articles(arts, <<a, b>>, s1).ok /\ merge_articles(arts, <<a, b, c>>, s3).ok)
            => SameSets(ThenWith(merge_articles(arts, <<a, b>>, s1), c, s2),
                        merge_articles(arts, <<a, b, c>>, s3))
IdsOf(arts) == {arts[i].Article_ID : i \in 1..Len(arts)}
C6_MergeAssociative ==
    pc = "idle" =>
        \A a, b, c \in IdsOf(articles) :
            Cardinality({a, b, c}) = 3 => Associative(articles, a, b, c)

----------------------------------------------------------------------------
(* Properties of the author index and the name matcher *)

IsMatch(l) == l.op = "match_name"
IsAddAlt(l) == l.op = "add_alternative_name"
WritesIndex(l) == l.op \in {"add_author", "add_alternative_name", "match_name"}
\* every key of the dict old is a key of new, with the same author
Kept(old, new) == \A k \in DOMAIN old : k \in DOMAIN new /\ new[k] = old[k]
\* the standardized name is an alternative name of an author other than aid
TakenByOther(ix, name, aid) ==
    /\ standardize(name, TRUE) \in DOMAIN ix.by_alt_name
    /\ ix.by_alt_name[standardize(name, TRUE)] # aid

\* C8: a standardized full name or alternative name that maps to an author
\* keeps this author through every add_author, add_alternative_name and
\* match_name, and add_alternative_name for another author with a name that
\* standardizes to a key of the alternative names reports no insertion.
C8_FirstWriterWins ==
    [][WritesIndex(nlast')
        => /\ Kept(lookup.by_name, lookup'.by_name)
           /\ Kept(lookup.by_alt_name, lookup'.by_alt_name)
           /\ (IsAddAlt(nlast') /\ TakenByOther(lookup, nlast'.key[1], nlast'.key[2]))
                => ~nlast'.added]_vars

\* C9: once the index is built from the author table, lookup_by_name of the
\* standardized name of every author returns the Aid of this author.
OwnName(i) == lookup_by_name(lookup, authors[i].std_fullname) = authors[i].Aid
C9_LookupByOwnName == Ready => \A i \in 1..Len(authors) : OwnName(i)

\* C9, as the index can hold it: once the index is built, lookup_by_name of
\* the standardized name of an author returns the Aid of an author of the
\* table with this standardized name, after any calls of match_name and
\* add_alternative_name; so it returns the Aid of the author when no other
\* author of the table has the same standardized name.
UniqueName(i) == \A j \in 1..Len(authors) : j # i => authors[j].std_fullname # authors[i].std_fullname
SameName(i) ==
    {authors[j].Aid : j \in {k \in 1..Len(authors) : authors[k].std_fullname = authors[i].std_fullname}}
C9_LookupByUniqueName ==
    Ready => \A i \in 1..Len(authors) :
                lookup_by_name(lookup, authors[i].std_fullname) \in SameName(i)

\* match_name added an alternative name to the index of two authors with
\* different standardized names
C9_Witness ==
    /\ Ready /\ IsMatch(nlast) /\ Len(authors) = 2
    /\ UniqueName(1) /\ UniqueName(2)
    /\ lookup.by_alt_name # EmptyDict

\* C10: match_name called with a name and an ORCID that are a key of the
\* cache returns the result the cache holds and changes neither the index
\* nor the author table; the result the cache holds for a key is the result
\* of the call that found the key missing, and no call replaces it.
C10_CacheHit ==
    [][/\ (IsMatch(nlast') /\ nlast'.key \in DOMAIN name_cache)
            => /\ nlast'.result = name_cache[nlast'.key]
               /\ lookup' = lookup /\ authors' = authors
       /\ (IsMatch(nlast') /\ nlast'.key \notin DOMAIN name_cache)
            => name_cache' = Put(name_cache, nlast'.key, nlast'.result)
       /\ name_cache' = EmptyDict \/ Kept(name_cache, name_cache')]_vars

\* a second call found in the cache the author a first call matched, after
\* the first call added an alternative name
C10_Witness ==
    /\ IsMatch(nlast) /\ nlast.hit
    /\ nlast.result.aid # None
    /\ lookup.by_alt_name # EmptyDict

(***************************************************************************)
(* Properties of the name matcher, continued                               *)
(***************************************************************************)

\* what match_name looks up for the key (name, orcid) of a call
QueryName(key) == MainName(Strip(key[1]))
QueryStd(key) == standardize(QueryName(key), TRUE)
QueryOrcid(key) == IF IsNa(key[2]) THEN None ELSE Strip(key[2])
KnownOrcid(ix, key) ==
    Truthy(QueryOrcid(key)) /\ Truthy(lookup_by_orcid(ix, QueryOrcid(key)))
ExactName(ix, key) == Truthy(lookup_by_name(ix, QueryStd(key)))
AlternativeName(ix, key) == Truthy(lookup_by_alt_name(ix, QueryStd(key)))
Searched(l) == IsMatch(l) /\ ~l.hit
\* the author table new has the name among the alternative names of a row
\* that did not have it in old
Learned(old, new, name) ==
    \E i \in 1..Len(old) :
        name \in Range(AltNamesOf(new[i])) \ Range(AltNamesOf(old[i]))

\* C13: a call of match_name the cache does not answer returns the author of
\* the first of these that succeeds: the ORCID supplied, when the index knows
\* it, whatever author the name is the standardized name of; else the exact
\* standardized name, marked not alternative; else the alternative name,
\* marked alternative.  The query name is scored against the authors, and
\* learned as an alternative name of the best, only when the three fail.
C13_StrategyOrder ==
    [][Searched(nlast') =>
        /\ KnownOrcid(lookup, nlast'.key)
            => nlast'.result.aid = lookup_by_orcid(lookup, QueryOrcid(nlast'.key))
        /\ (~KnownOrcid(lookup, nlast'.key) /\ ExactName(lookup, nlast'.key))
            => /\ nlast'.result.aid = lookup_by_name(lookup, QueryStd(nlast'.key))
               /\ ~nlast'.result.alt
               /\ ~Learned(authors, authors', QueryName(nlast'.key))
        /\ (/\ ~KnownOrcid(lookup, nlast'.key) /\ ~ExactName(lookup, nlast'.key)
            /\ AlternativeName(lookup, nlast'.key))
            => /\ nlast'.result.aid = lookup_by_alt_name(lookup, QueryStd(nlast'.key))
               /\ nlast'.result.alt
               /\ ~Learned(authors, authors', QueryName(nlast'.key))]_vars

\* match_name returned the author of the ORCID for a name that is the
\* standardized name of another author
C13_Witness ==
    /\ Searched(nlast)
    /\ KnownOrcid(lookup, nlast.key) /\ ExactName(lookup, nlast.key)
    /\ lookup_by_name(lookup, QueryStd(nlast.key)) # lookup_by_orcid(lookup, QueryOrcid(nlast.key))
    /\ nlast.result.aid = lookup_by_orcid(lookup, QueryOrcid(nlast.key))

\* no row of the author table scores MinScore or more for the name
Scores(name_parts, db_parts) ==
    ~Skipped(name_parts, db_parts) /\ _calculate_match_score(name_parts, db_parts) >= MinScore
NoneScores(tab, name_parts) ==
    \A i \in 1..Len(tab) : ~Scores(name_parts, extract_complex_name(tab[i].std_fullname))
\* every author has in new the alternative names it has in old
SameAltNames(old, new) ==
    /\ Len(new) = Len(old)
    /\ \A i \in 1..Len(old) : AltNamesOf(new[i]) = AltNamesOf(old[i])
NoStrategy(tab, ix, key) ==
    /\ ~KnownOrcid(ix, key) /\ ~ExactName(ix, key) /\ ~AlternativeName(ix, key)
    /\ NoneScores(tab, extract_complex_name(QueryStd(key)))

\* C14: a call of match_name the cache does not answer, for which the ORCID,
\* the exact name and the alternative name are unknown and no author scores
\* MinScore, returns (None, None, False); and a call that returns it leaves
\* the alternative names of every author and the four indexes as they were.
C14_NoMatchChangesNothing ==
    [][Searched(nlast') =>
        /\ NoStrategy(authors, lookup, nlast'.key) => nlast'.result = NoMatch
        /\ nlast'.result = NoMatch
            => (SameAltNames(authors, authors') /\ lookup' = lookup)]_vars

\* match_name returned no match for a name with a parenthesized alternative
\* name, on a table of two authors one of which has an alternative name
C14_Witness ==
    /\ Searched(nlast) /\ nlast.result = NoMatch
    /\ NoStrategy(authors, lookup, nlast.key)
    /\ Parenthesized(nlast.key[1])
    /\ Len(authors) = 2 /\ lookup.by_alt_name # EmptyDict

\* the author of the table with this Aid has an alternative name with the
\* standardized form of name
StdAltNames(row) == {standardize(a, TRUE) : a \in Range(AltNamesOf(row))}
HasAltName(tab, aid, name) ==
    \E i \in 1..Len(tab) : tab[i].Aid = aid /\ standardize(name, TRUE) \in StdAltNames(tab[i])

\* C16: add_alternative_name with a name the author already has among its
\* alternative names, as the same string or as another string with the same
\* standardized form, returns False and leaves the alternative names of
\* every author and the index of the alternative names as they were.
C16_AddKnownAltName ==
    [][(IsAddAlt(nlast') /\ HasAltName(authors, nlast'.key[2], nlast'.key[1]))
        => /\ ~nlast'.added
           /\ SameAltNames(authors, authors')
           /\ lookup'.by_alt_name = lookup.by_alt_name]_vars

\* the call went to the scoring of the components: the cache, the ORCID, the
\* exact name and the alternative name did not answer it
Fuzzy(ix, l) ==
    Searched(l) /\ ~KnownOrcid(ix, l.key) /\ ~ExactName(ix, l.key) /\ ~AlternativeName(ix, l.key)
Examined(tab, name_parts, i) ==
    ~Skipped(name_parts, extract_complex_name(tab[i].std_fullname))
ScoreAt(tab, name_parts, i) ==
    _calculate_match_score(name_parts, extract_complex_name(tab[i].std_fullname))
\* row i is examined, scores MinScore or more, more than every row examined
\* before it and no less than every row examined after it
FirstBest(tab, name_parts, i) ==
    /\ Examined(tab, name_parts, i)
    /\ ScoreAt(tab, name_parts, i) >= MinScore
    /\ \A j \in 1..Len(tab) :
        Examined(tab, name_parts, j)
            => /\ j < i => ScoreAt(tab, name_parts, j) < ScoreAt(tab, name_parts, i)
               /\ j > i => ScoreAt(tab, name_parts, j) <= ScoreAt(tab, name_parts, i)
ReturnedRow(tab, r, i) == r.aid = tab[i].Aid /\ r.name = tab[i].fullname
FuzzyReturns(tab, name_parts, r) ==
    \E i \in 1..Len(tab) : ReturnedRow(tab, r, i) /\ FirstBest(tab, name_parts, i)

\* C21: the author the scoring of the components returns is a row of the
\* table whose first name starts with the first character of the query's,
\* whose score is MinScore or more and more than the score of every row
\* examined before it; of the rows with the best score it is the first in
\* the order of the table.
C21_FuzzyAcceptsFirstBest ==
    [][(Fuzzy(lookup, nlast') /\ nlast'.result # NoMatch)
        => FuzzyReturns(authors, extract_complex_name(QueryStd(nlast'.key)),
                        nlast'.result)]_vars

\* the first call after the load of two authors that score the same for the
\* query returned the first of them
C21_Witness ==
    /\ nameCalls = 2 /\ Searched(nlast) /\ nlast.result # NoMatch
    /\ ~KnownOrcid(lookup, nlast.key) /\ ~ExactName(lookup, nlast.key)
    /\ \E i, j \in 1..Len(authors) :
        /\ i < j /\ ReturnedRow(authors, nlast.result, i)
        /\ Examined(authors, extract_complex_name(QueryStd(nlast.key)), j)
        /\ ScoreAt(authors, extract_complex_name(QueryStd(nlast.key)), j)
            = ScoreAt(authors, extract_complex_name(QueryStd(nlast.key)), i)
\* C28: the author match_name returns from the cache for (name, orcid) is
\* the author the strategies return for them on the index as it is at the call.
C28_CacheCoherent ==
    [][(IsMatch(nlast') /\ nlast'.hit)
        => nlast'.result.aid = Uncached(Matcher, nlast'.key[1], nlast'.key[2]).result.aid]_vars
\* the index _initialize_lookup_and_matcher builds of the author table
RECURSIVE IndexRows(_, _, _)
IndexRows(ix, tab, idx) ==
    IF idx > Len(tab) THEN ix ELSE IndexRows(IndexRow(ix, tab[idx], idx), tab, idx + 1)
Rebuilt(tab) == IndexRows(NoIndex, tab, 1)

\* C30: once the index is built, every alternative name of every author is
\* looked up to the Aid of that author, every entry of the index of the
\* alternative names is the standardized form of an alternative name of the
\* author it points to, and the index built again from the author table has
\* the same entries.
C30_AltIndexConsistent ==
    Ready =>
        /\ \A i \in 1..Len(authors) : \A n \in Range(AltNamesOf(authors[i])) :
            lookup_by_alt_name(lookup, n) = authors[i].Aid
        /\ \A k \in DOMAIN lookup.by_alt_name :
            \E i \in 1..Len(authors) :
                authors[i].Aid = lookup.by_alt_name[k] /\ k \in StdAltNames(authors[i])
        /\ Rebuilt(authors).by_alt_name = lookup.by_alt_name
(***************************************************************************)
(* Properties of the article registry, continued                           *)
(***************************************************************************)

\* the first id, in the order the caller passed them, whose article has a
\* DOI; the first id passed when none has
FirstPassedWithDoi(arts, ids) ==
    LET withDoi == {k \in 1..Len(ids) : HasDoi(arts[IdxOf(arts, ids[k])].doi)}
    IN IF withDoi = {} THEN ids[1]
       ELSE ids[CHOOSE k \in withDoi : \A j \in withDoi : k <= j]
MainIs(r, idx) == r.main = idx
MergesInto(arts, ids, rnd) ==
    merge_articles(arts, ids, rnd).ok
        => MainIs(merge_articles(arts, ids, rnd), IdxOf(arts, FirstPassedWithDoi(arts, ids)))

\* C12: whatever list of ids the caller passes, a merge that succeeds writes
\* to the article of the first id of the list, in the order passed, that has
\* a non-empty DOI, and to the article of the first id passed when none has.
C12_MainIsFirstPassedWithDoi ==
    pc = "idle" =>
        \A ids \in MergeInputs(articles) : \A rnd \in MergeDraws(articles, ids) :
            MergesInto(articles, ids, rnd)

\* the current DOI of row a, normalized, is the current DOI of row b or one
\* of its old_dois, whatever the case of the letters
HistoricalDois(row) == {clean_doi(d) : d \in row.old_dois \ {None}}
LinkedByDoi(a, b) ==
    /\ ValidDoiKey(DoiKey(a))
    /\ DoiKey(a) = DoiKey(b) \/ DoiKey(a) \in HistoricalDois(b)
InSameGroup(gs, i, j) == \E g \in 1..Len(gs) : i \in Range(gs[g]) /\ j \in Range(gs[g])
Grouped(l, position) == l.op = "clean_start" /\ position = "doi"

\* C17: the groups identify_doi_duplicates returns to clean() hold in one
\* group every two articles such that the normalized DOI of one is the
\* normalized DOI of the other or one of the old_dois of the other.
C17_GroupsByCurrentOrOldDoi ==
    Grouped(last, pc) =>
        \A i, j \in 1..Len(articles) :
            (i # j /\ LinkedByDoi(articles[i], articles[j])) => InSameGroup(groups, i, j)

SameDoi(a, b) == ValidDoiKey(DoiKey(a)) /\ DoiKey(a) = DoiKey(b)

\* C18: when clean() has returned, no two articles of the table have the
\* same normalized non-empty DOI, whatever the table clean() started from.
C18_NoSharedDoiAfterClean ==
    CleanReturned =>
        \A i, j \in 1..Len(articles) : i # j => ~SameDoi(articles[i], articles[j])

PhaseOrder == {<<"idle", "doi">>, <<"doi", "title">>, <<"title", "similar">>, <<"similar", "idle">>}
\* the step ends a phase of clean(): no group of the phase is left, and the
\* table after the step is the table without the articles marked for deletion
PhaseApplied ==
    /\ groups = <<>>
    /\ articles' = Drop(articles, toDelete)
    /\ toDelete' = {}

\* C19: clean() goes through its steps in the order DOI groups, title
\* groups, similar titles.  The title groups and the conflicts are those of
\* the table once every DOI group is merged and the merged articles are
\* removed; the similar titles are those of the table once every title group
\* is merged and the merged articles are removed.
C19_PhasesInOrder ==
    [][/\ pc' # pc => <<pc, pc'>> \in PhaseOrder
       /\ (pc = "doi" /\ pc' = "title")
            => /\ PhaseApplied
               /\ groups' = identify_title_duplicates(articles').no_conflicts
               /\ report'.conflicts = identify_title_duplicates(articles').conflicts
       /\ (pc = "title" /\ pc' = "similar") => PhaseApplied
       /\ (pc = "similar" /\ pc' = "idle")
            => /\ groups = <<>> /\ toDelete = {} /\ articles' = articles
               /\ report'.similar = identify_similar_titles(articles)]_vars

\* step 1 of clean() merged a DOI group and removed an article, and the
\* table it left has a title group to merge
C19_Witness ==
    /\ pc = "title" /\ last.op = "clean_doi_done"
    /\ Len(articles) < Len(cleanPre)
    /\ groups # <<>>

\* the titles of two articles are similar and no more: identify_similar_titles
\* finds a word n-gram in both, and their standardized titles differ
ShareNGram(a, b) ==
    /\ ValidTitleKey(StdTitle(a)) /\ ValidTitleKey(StdTitle(b))
    /\ get_word_ngrams(StdTitle(a), NGramSize) \cap get_word_ngrams(StdTitle(b), NGramSize) # {}
OnlySimilar(a, b) == ShareNGram(a, b) /\ StdTitle(a) # StdTitle(b)

\* C20: step 3 of clean() changes no article and removes none; and no merge
\* of clean() reads two articles whose titles are only similar, unless they
\* have the same normalized DOI and are merged for it in step 1.
C20_SimilarTitlesOnlyReported ==
    [][/\ pc = "similar" => articles' = articles
       /\ (IsGroupMerge(last') /\ last'.ok)
            => \A i, j \in last'.located :
                  OnlySimilar(articles[i], articles[j]) => SameDoi(articles[i], articles[j])]_vars

DistinctIds(arts) ==
    \A i, j \in 1..Len(arts) : arts[i].Article_ID = arts[j].Article_ID => i = j

\* C27: when no two articles have the same Article_ID before a call of
\* merge_articles or of clean(), no two have the same Article_ID after it.
C27_IdsStayDistinct ==
    [][/\ (IsMerge(last') /\ DistinctIds(articles)) => DistinctIds(articles')
       /\ (CleanReturned' /\ DistinctIds(cleanPre')) => DistinctIds(articles')]_vars
\* the articles of two tables, row by row, with their Article_ID, DOI,
\* authors, tracking and old_dois
SameArticle(a, b) ==
    /\ a.Article_ID = b.Article_ID /\ a.doi = b.doi /\ a.authors = b.authors
    /\ a.tracking = b.tracking /\ a.old_dois = b.old_dois
SameRegistry(old, new) ==
    Len(new) = Len(old) /\ \A i \in 1..Len(old) : SameArticle(old[i], new[i])
\* clean() on the table finds nothing to do in the groups of a step: no
\* group changes an article or marks one for deletion, whatever the draw
NothingToDo(arts, gs) ==
    \A k \in 1..Len(gs) : \A rnd \in MergeDraws(arts, GroupIds(arts, gs[k])) :
        /\ SameRegistry(arts, CleanGroup(arts, gs[k], rnd).arts)
        /\ CleanGroup(arts, gs[k], rnd).del = {}
Fixpoint(arts) ==
    /\ NothingToDo(arts, identify_doi_duplicates(arts))
    /\ NothingToDo(arts, identify_title_duplicates(arts).no_conflicts)

\* C29: when clean() has returned, a second clean() called on the registry
\* as it is merges nothing and deletes nothing: it leaves every article with
\* its Article_ID, DOI, authors, tracking and old_dois.
C29_CleanFixpoint ==
    CleanReturned =>
        /\ SameRegistry(articles, ensure_years_only(articles))
        /\ Fixpoint(ensure_years_only(articles))
(***************************************************************************)
(* Properties of the functions of the tools                                *)
(***************************************************************************)

IsCall(op) == call.op = op

\* C11: standardize is idempotent, for both values of to_lower: standardizing
\* the result of standardize(x, to_lower) again gives that result back.
C11_StandardizeIdempotent ==
    IsCall("standardize") => standardize(call.out.v, call.args[2]) = call.out.v


\* a date no year can be read from: a string that is not the sentinel and
\* holds no year between YearMin and YearMax
HoldsYear(s) ==
    \/ YearSearch(s) # <<>>
    \/ IsDigitStr(s) /\ Len(s) = YearLen /\ YearMin <= NumVal(s) /\ NumVal(s) <= YearMax
Unparseable(date) == date.t = "str" /\ date.v # Unrecovered /\ ~HoldsYear(date.v)
IsSentinel(date) == date = DStr(Unrecovered)
NoYear(out) == out = DNone

\* C15: clean_date and ensure_years_only raise no error on any date; they
\* give no year for a date no year can be read from, and give the sentinel
\* 'unrecovered' back as it is.
C15_DatesNeverRaise ==
    (IsCall("clean_date") \/ IsCall("ensure_years_only")) =>
        /\ call.raised = NoError
        /\ Unparseable(call.args[1]) => NoYear(call.out)
        /\ IsSentinel(call.args[1]) => call.out = call.args[1]


\* the parts of the two names of a call of _calculate_match_score
NameParts == extract_complex_name(call.args[1])
DbParts == extract_complex_name(call.args[2])
MaxScore == 100

\* C22: for every pair of decomposed names the first name adds at most
\* FirstNameExact to the score, the last name at most LastNameExact, and the
\* score _calculate_match_score returns lies between 0 and MaxScore.
C22_ScoreCapped ==
    IsCall("calculate_match_score") =>
        /\ FirstNameScore(NameParts.first, DbParts.first) <= FirstNameExact
        /\ LastNameScore(NameParts, DbParts) <= LastNameExact
        /\ NumVal(call.out.v) \in 0..MaxScore

\* what _match_by_components returns when it scores every row of the table,
\* as it does on a table of PruneThreshold rows or fewer: the first of the
\* rows with the best score, when that is MinScore or more
Unpruned(tab, name_parts) ==
    IF \E i \in 1..Len(tab) : FirstBest(tab, name_parts, i)
    THEN DStr(tab[CHOOSE i \in 1..Len(tab) : FirstBest(tab, name_parts, i)].Aid)
    ELSE DNone

\* C23: on a table of more rows than PruneThreshold, where the rows whose
\* last word starts with another character than the query's are left out,
\* _match_by_components returns the author it returns when it scores every
\* row of the table, or no author when that returns none.
C23_PruningChangesNoResult ==
    IsCall("match_by_components") =>
        call.out = Unpruned(LargeMatcher(call.args[2]).authors,
                            extract_complex_name(standardize(call.args[1], TRUE)))

\* the identifier create_article_id encodes: the DOI after its prefix, in
\* lower case
Normalized(doi) == LowerStr(AfterOrg(doi))
IdOfDoi(doi) == create_article_id(doi, None, "AAA")

\* C24: the id create_article_id derives from a DOI is reversible and free
\* of collisions: long_DOI without the prefix gives the normalized DOI back
\* from the id, and no DOI with another normalized form has the same id.
C24_IdReversible ==
    (IsCall("create_article_id") /\ HasDoi(call.args[1])) =>
        /\ long_DOI(call.out.v, FALSE) = Normalized(call.args[1])
        /\ \A other \in DoiTexts :
            (HasDoi(other) /\ Normalized(other) # Normalized(call.args[1]))
                => IdOfDoi(other) # call.out.v

\* C25: create_article_id is deterministic: another derivation from the
\* same DOI and title gives the same id, with a DOI and without.
C25_IdDeterministic ==
    IsCall("create_article_id") =>
        \A rnd \in Suffixes :
            create_article_id(call.args[1], call.args[2], rnd) = call.out.v
====
